---------------------------- MODULE Spec2Model ----------------------------
(***************************************************************************)
(* A model of rpmdistro-gitoverlay's resolver: rdgo/git.py (GitMirror,     *)
(* make_absolute_url) and rdgo/task_resolve.py (TaskResolve.run).          *)
(*                                                                         *)
(* Strings of the program are sequences of one-character strings; indices  *)
(* handed between the string operators are Python's (0-based, -1 for "not  *)
(* found").                                                                *)
(***************************************************************************)
EXTENDS Integers, Sequences, FiniteSets, TLC

VARIABLES
    \* ---- make_absolute_url / describe, applied to enumerated inputs ----
    fpc,             \* "call" before the function is applied, "ret" after
    in_parent,       \* make_absolute_url: argument parent
    in_relpath,      \* make_absolute_url: argument relpath
    out_url,         \* make_absolute_url: outcome
    in_description,  \* describe: what `git describe` printed
    out_describe,    \* describe: outcome
    \* ---- the other helper functions, applied to enumerated inputs ----
    fn_args,         \* the arguments of the call
    fn_result,       \* its outcome
    tmpdirs,         \* the directories tempfile.mkdtemp made that still exist
    \* ---- two mirror() calls side by side ----
    procs,           \* per process: its active mirror() calls and how it ended
    sched,           \* whether the two run side by side, and whether they did
    stampTmp,        \* per URL: content of submodules-cache-stamp.tmp, 0: no file
    \* ---- mirror() on a store whose paths are derived from the URLs ----
    fs,              \* the directories under the mirror root, by path
    \* ---- the remote repositories ----
    graph,           \* which submodules the commits declare: "dag" or "cycle"
    remoteHead,      \* per URL: the commit `master` points to on the remote
    \* ---- GitMirror's store under <workdir>/src ----
    mirrorDir,       \* per URL: a directory exists at the final mirror path
    tmpMirror,       \* per URL: a directory exists at <mirror path>.tmp
    localHead,       \* per URL: the commit `master` points to in the mirror
    stamp,           \* per URL: content of submodules-cache-stamp, 0: no file
    stack,           \* the active mirror() calls, outermost first
    \* ---- TaskResolve.run ----
    overlay,         \* overlay.yml: the components
    rpc,             \* where run() is
    opts,            \* the parsed command line
    comp,            \* index of the component being resolved
    cur,             \* that component's record in `expanded`
    expanded,        \* the components resolved so far
    changed,         \* run()'s local `changed`
    snapshotdir,     \* <workdir>/snapshot
    old_snapshotdir, \* <workdir>/old-snapshot
    tmp_snapshotdir, \* <workdir>/snapshot.tmp
    marker,          \* the --touch-if-changed path: 0 absent, else its mtime
    runs,            \* runs started so far
    \* ---- history, read by the properties only ----
    atStart,         \* snapshot, old-snapshot and marker when run() began
    failure,         \* what made the last run fail
    lastCall,        \* the last top-level mirror() call, while nothing changed since
    callStat,        \* the running top-level mirror() call: what it did
    retStat          \* the last top-level mirror() call that returned

pureVars == <<fpc, in_parent, in_relpath, out_url, in_description, out_describe, fn_args, fn_result, tmpdirs, procs, sched, stampTmp, fs>>

storeVars == <<mirrorDir, tmpMirror, localHead, stamp>>

snapVars == <<snapshotdir, old_snapshotdir, tmp_snapshotdir, marker>>

runVars == <<overlay, rpc, opts, comp, cur, expanded, changed, runs>>

histVars == <<atStart, failure, lastCall, callStat, retStat>>

mainVars == <<remoteHead, storeVars, stack, runVars, snapVars, histVars>>

\* what no step of mirror() or run() changes
fixedVars == <<pureVars, graph>>

vars == <<fixedVars, mainVars>>

-----------------------------------------------------------------------------
(* Python string primitives *)

\* Python's None, where a string is expected
None == <<"None">>

Min(a, b) == IF a < b THEN a ELSE b

\* s[a:b] for 0 <= a, 0 <= b (Python clamps both to len(s))
Slice(s, a, b) ==
    LET lo == Min(a, Len(s))
        hi == Min(b, Len(s))
    IN  IF hi <= lo THEN <<>> ELSE SubSeq(s, lo + 1, hi)

\* s[a:]
SliceFrom(s, a) == Slice(s, a, Len(s))

\* whether sub occurs in s at 0-based index i
OccursAt(s, sub, i) ==
    /\ i >= 0
    /\ i + Len(sub) <= Len(s)
    /\ SubSeq(s, i + 1, i + Len(sub)) = sub

startswith(s, prefix) == OccursAt(s, prefix, 0)

endswith(s, suffix) == Len(s) >= Len(suffix) /\ OccursAt(s, suffix, Len(s) - Len(suffix))

\* s.find(sub, start): the lowest index >= start at which sub occurs, or -1
find(s, sub, start) ==
    LET hits == {i \in start..(Len(s) - Len(sub)) : OccursAt(s, sub, i)}
    IN  IF hits = {} THEN -1 ELSE CHOOSE i \in hits : \A j \in hits : i <= j

\* s.rfind(sub): the highest index at which sub occurs, or -1
rfind(s, sub) ==
    LET hits == {i \in 0..(Len(s) - Len(sub)) : OccursAt(s, sub, i)}
    IN  IF hits = {} THEN -1 ELSE CHOOSE i \in hits : \A j \in hits : i >= j

-----------------------------------------------------------------------------
(* rdgo/utils.py is not part of the sources at hand: fatal() is taken to    *)
(* print its message and end the process, as the specification says        *)
(* ("the process aborts immediately with a descriptive message").          *)

fatal == [kind |-> "fatal", url |-> <<>>]

\* a failed `assert`
AssertionError == [kind |-> "assert", url |-> <<>>]

Returned(u) == [kind |-> "ok", url |-> u]

\* make_absolute_url has not been applied yet
NotCalled == [kind |-> "none", url |-> <<>>]

-----------------------------------------------------------------------------
(* git.py: make_absolute_url *)

DotDotSlash == <<".", ".", "/">>

\* the `while relpath.startswith('../')` loop; it walks `parent`, the whole URL
RECURSIVE WalkUp(_, _)
WalkUp(parent, relpath) ==
    IF startswith(relpath, DotDotSlash)
    THEN LET i == rfind(parent, <<"/">>)
         IN  IF i = -1
             THEN [fatal |-> TRUE, parent |-> parent, relpath |-> relpath]
             ELSE WalkUp(Slice(parent, 0, i), SliceFrom(relpath, 3))
    ELSE [fatal |-> FALSE, parent |-> parent, relpath |-> relpath]

make_absolute_url(parent0, relpath0) ==
    LET parent1 == IF endswith(parent0, <<"/">>)
                   THEN Slice(parent0, 0, Len(parent0) - 1)
                   ELSE parent0
        method_index == find(parent1, <<":", "/", "/">>, 0)
        first_slash == find(parent1, <<"/">>, method_index + 3)
        w == WalkUp(parent1, relpath0)
        parent2 == Slice(w.parent, 0, first_slash) \o w.parent
    IN  IF method_index = -1 THEN AssertionError
        ELSE IF first_slash = -1 THEN AssertionError
        ELSE IF w.fatal THEN fatal
        ELSE IF w.relpath = <<>> THEN Returned(parent2)
        ELSE Returned(parent2 \o <<"/">> \o w.relpath)


-----------------------------------------------------------------------------
(* git.py: GitMirror.describe *)

HashLen == 40

\* what `git describe --long --abbrev=40 --always` prints: the bare commit id
\* when no tag is reachable, else <tag>-<count>-g<hash>
RECURSIVE Digits(_)
Digits(n) ==
    LET d == <<"0", "1", "2", "3", "4", "5", "6", "7", "8", "9">>
    IN  IF n < 10 THEN <<d[n + 1]>> ELSE Digits(n \div 10) \o <<d[(n % 10) + 1]>>

GitDescribeLong(tag, count, hash) ==
    IF tag = None THEN hash
    ELSE tag \o <<"-">> \o Digits(count) \o <<"-", "g">> \o hash

AssertFailed == <<"AssertionError">>

\* describe gone wrong: split at the first "-g" instead of the last
describe_first_dash_g(description) ==
    IF Len(description) = HashLen
    THEN <<None, description>>
    ELSE LET rgdash == find(description, <<"-", "g">>, 0)
         IN  IF rgdash >= 0
             THEN <<Slice(description, 0, rgdash), SliceFrom(description, rgdash + 2)>>
             ELSE AssertFailed

describe(description) ==
    IF Len(description) = HashLen
    THEN <<None, description>>
    ELSE LET rgdash == rfind(description, <<"-", "g">>)
         IN  IF rgdash >= 0
             THEN <<Slice(description, 0, rgdash), SliceFrom(description, rgdash + 2)>>
             ELSE AssertFailed

-----------------------------------------------------------------------------
(* The repositories: URLs, commits and the submodules each commit declares *)

MaxRev == 2     \* commits per repository
MaxRuns == 3    \* runs of the resolver
MaxDepth == 5   \* nested calls the interpreter allows (sys.getrecursionlimit())

Urls == {"A", "B", "C"}

NoUrl == "none"

Revs == 1..MaxRev

\* a ref handed to mirror(): a branch name, or a full commit id
Branch == [kind |-> "branch", rev |-> 0]
Commit(r) == [kind |-> "commit", rev |-> r]

Sub(u, r) == [url |-> u, checksum |-> r]

\* `git submodule status` at commit r of u. In the graph "dag" B@2 refers back
\* to an older commit of A, and C is shared by A@2 and B@2; the graph is
\* acyclic, as commit ids are hashes of their content. In the graph "cycle"
\* A@1 declares B@1 and B@1 declares A@1. In the graph "shared" A@1 and B@1
\* both declare C@1, in the graph "disjoint" only A@1 does.
Submodules(u, r) ==
    IF graph = "cycle"
    THEN CASE u = "A" /\ r = 1 -> <<Sub("B", 1)>>
           [] u = "B" /\ r = 1 -> <<Sub("A", 1)>>
           [] OTHER -> <<>>
    ELSE IF graph = "shared"
    THEN CASE u = "A" /\ r = 1 -> <<Sub("C", 1)>>
           [] u = "B" /\ r = 1 -> <<Sub("C", 1)>>
           [] OTHER -> <<>>
    ELSE IF graph = "disjoint"
    THEN CASE u = "A" /\ r = 1 -> <<Sub("C", 1)>>
           [] OTHER -> <<>>
    ELSE CASE u = "A" /\ r = 1 -> <<Sub("B", 1)>>
           [] u = "A" /\ r >= 2 -> <<Sub("B", 2), Sub("C", 1)>>
           [] u = "B" /\ r = 1 -> <<>>
           [] u = "B" /\ r >= 2 -> <<Sub("A", 1), Sub("C", 1)>>
           [] OTHER -> <<>>

\* the commits a mirror of u holds: those reachable from its master
HasCommit(u, r) == mirrorDir[u] /\ r >= 1 /\ r <= localHead[u]

\* `git rev-parse <ref>` in the mirror: a branch resolves to its commit, a full
\* commit id is printed as it is
RevParse(u, ref) == IF ref.kind = "branch" THEN localHead[u] ELSE ref.rev

-----------------------------------------------------------------------------
(* git.py: GitMirror.mirror, one frame of `stack` per active call *)

Frame(u, ref, fetch) ==
    [url |-> u, ref |-> ref, fetch |-> fetch, pc |-> "enter", rev |-> 0,
     todo |-> <<>>, ndone |-> 0,
     \* history: the stamp when the call began, and the commit a nested call
     \* for the same URL has stamped since (0: none)
     stamp0 |-> stamp[u], nested |-> 0]

Top == stack[Len(stack)]

SetTop(f) == [stack EXCEPT ![Len(stack)] = f]

NoCall == [valid |-> FALSE, url |-> NoUrl, ref |-> Branch, rev |-> 0]

\* of a top-level call: whether it repeats the call before it with nothing
\* changed in between, what that call returned, what this one returned, and
\* how often it listed submodules and called itself
NoStat == [valid |-> FALSE, url |-> NoUrl, repeat |-> FALSE, prev |-> 0, rev |-> 0,
           nlist |-> 0, nrec |-> 0]

\* an exception leaves every active mirror() call and run()
Raise(cause) ==
    /\ stack' = <<>>
    /\ rpc' = "failed"
    /\ failure' = [cause |-> cause, stack |-> stack, repeat |-> callStat.repeat]
    /\ callStat' = NoStat
    /\ UNCHANGED <<overlay, opts, comp, cur, expanded, changed, runs>>
    /\ UNCHANGED <<atStart, lastCall, retStat>>

\* `return rev` of the call on top of the stack
Return(rev, stacked) ==
    IF Len(stack) = 1
    THEN /\ stack' = <<>>
         /\ IF rpc = "src_wait"
            THEN /\ cur' = [cur EXCEPT !.revision = rev]
                 /\ rpc' = "distgit"
            ELSE /\ cur' = [cur EXCEPT !.distgit_revision = rev]
                 /\ rpc' = "srpm"
         /\ retStat' = [callStat EXCEPT !.valid = TRUE, !.rev = rev]
         /\ callStat' = NoStat
         /\ lastCall' = IF Top.fetch THEN NoCall
                        ELSE [valid |-> TRUE, url |-> Top.url, ref |-> Top.ref,
                              rev |-> rev]
         /\ UNCHANGED <<overlay, opts, comp, expanded, changed, runs>>
         /\ UNCHANGED <<atStart, failure>>
    ELSE /\ stack' = [i \in 1..(Len(stack) - 1) |->
                        IF i = Len(stack) - 1
                        THEN [stacked[i] EXCEPT !.ndone = @ + 1]
                        ELSE stacked[i]]
         /\ UNCHANGED <<runVars, histVars>>

\* lines 150-162: remove a leftover temporary clone, then clone the mirror if
\* there is none, or fetch if asked to. Clone and fetch reach the remote, and
\* may fail; a failed clone may leave its directory behind.
MirrorEnsure ==
    /\ stack # <<>>
    /\ Top.pc = "enter"
    /\ LET u == Top.url IN
        IF ~mirrorDir[u]
        THEN \/ /\ mirrorDir' = [mirrorDir EXCEPT ![u] = TRUE]
                /\ tmpMirror' = [tmpMirror EXCEPT ![u] = FALSE]
                /\ localHead' = [localHead EXCEPT ![u] = remoteHead[u]]
                /\ stack' = SetTop([Top EXCEPT !.pc = "revparse"])
                /\ UNCHANGED <<runVars, histVars>>
             \/ /\ \E left \in BOOLEAN : tmpMirror' = [tmpMirror EXCEPT ![u] = left]
                /\ UNCHANGED <<mirrorDir, localHead>>
                /\ Raise("mirror")
        ELSE IF Top.fetch
        THEN \/ /\ tmpMirror' = [tmpMirror EXCEPT ![u] = FALSE]
                /\ localHead' = [localHead EXCEPT ![u] = remoteHead[u]]
                /\ stack' = SetTop([Top EXCEPT !.pc = "revparse"])
                /\ UNCHANGED <<mirrorDir, runVars, histVars>>
             \/ /\ tmpMirror' = [tmpMirror EXCEPT ![u] = FALSE]
                /\ UNCHANGED <<mirrorDir, localHead>>
                /\ Raise("mirror")
        ELSE /\ tmpMirror' = [tmpMirror EXCEPT ![u] = FALSE]
             /\ stack' = SetTop([Top EXCEPT !.pc = "revparse"])
             /\ UNCHANGED <<mirrorDir, localHead, runVars, histVars>>
    /\ UNCHANGED <<remoteHead, stamp, snapVars>>

\* MirrorResolve gone wrong: no look at the cache stamp
MirrorResolve_NoCache ==
    /\ stack # <<>>
    /\ Top.pc = "revparse"
    /\ stack' = SetTop([Top EXCEPT !.rev = RevParse(Top.url, Top.ref), !.pc = "list"])
    /\ UNCHANGED <<runVars, histVars>>
    /\ UNCHANGED <<remoteHead, storeVars, snapVars>>

\* lines 164-172: resolve the ref, and return at once when the cache stamp
\* holds the resolved commit
MirrorResolve ==
    /\ stack # <<>>
    /\ Top.pc = "revparse"
    /\ LET rev == RevParse(Top.url, Top.ref) IN
        IF stamp[Top.url] # 0 /\ stamp[Top.url] = rev
        THEN Return(rev, stack)
        ELSE /\ stack' = SetTop([Top EXCEPT !.rev = rev, !.pc = "list"])
             /\ UNCHANGED <<runVars, histVars>>
    /\ UNCHANGED <<remoteHead, storeVars, snapVars>>

\* line 174, _list_submodules: a scratch clone of the mirror, checked out at
\* the ref, lists the submodules; the checkout fails when the mirror does not
\* hold the commit
MirrorList ==
    /\ stack # <<>>
    /\ Top.pc = "list"
    /\ IF HasCommit(Top.url, Top.rev)
       THEN /\ stack' = SetTop([Top EXCEPT !.todo = Submodules(Top.url, Top.rev),
                                           !.pc = "loop"])
            /\ callStat' = [callStat EXCEPT !.nlist = @ + 1]
            /\ UNCHANGED <<runVars, atStart, failure, lastCall, retStat>>
       ELSE Raise("mirror")
    /\ UNCHANGED <<remoteHead, storeVars, snapVars>>

\* MirrorRecurse gone wrong: the next submodule is passed over
MirrorRecurse_Skip ==
    /\ stack # <<>>
    /\ Top.pc = "loop"
    /\ Top.todo # <<>>
    /\ stack' = SetTop([Top EXCEPT !.todo = Tail(@), !.ndone = @ + 1])
    /\ callStat' = [callStat EXCEPT !.nrec = @ + 1]
    /\ UNCHANGED <<runVars, atStart, failure, lastCall, retStat>>
    /\ UNCHANGED <<remoteHead, storeVars, snapVars>>

\* MirrorRecurse gone wrong: the call mirrors its own URL and ref again
MirrorRecurse_Self ==
    /\ stack # <<>>
    /\ Top.pc = "loop"
    /\ Top.todo # <<>>
    /\ IF Len(stack) < MaxDepth
       THEN /\ stack' = Append(SetTop([Top EXCEPT !.todo = Tail(@)]),
                               Frame(Top.url, Top.ref, Top.fetch))
            /\ callStat' = [callStat EXCEPT !.nrec = @ + 1]
            /\ UNCHANGED <<runVars, atStart, failure, lastCall, retStat>>
       ELSE Raise("recursion")
    /\ UNCHANGED <<remoteHead, storeVars, snapVars>>

\* lines 174-177: the next submodule is mirrored by a recursive call; the
\* interpreter raises RuntimeError when the calls nest too deep
MirrorRecurse ==
    /\ stack # <<>>
    /\ Top.pc = "loop"
    /\ Top.todo # <<>>
    /\ IF Len(stack) < MaxDepth
       THEN /\ LET module == Head(Top.todo) IN
                stack' = Append(SetTop([Top EXCEPT !.todo = Tail(@)]),
                                Frame(module.url, Commit(module.checksum), Top.fetch))
            /\ callStat' = [callStat EXCEPT !.nrec = @ + 1]
            /\ UNCHANGED <<runVars, atStart, failure, lastCall, retStat>>
       ELSE Raise("recursion")
    /\ UNCHANGED <<remoteHead, storeVars, snapVars>>

\* the stack with the stamp of `u` noted in every other active call for `u`
NoteNested(u, rev) ==
    [i \in 1..Len(stack) |->
        IF i < Len(stack) /\ stack[i].url = u
        THEN [stack[i] EXCEPT !.nested = rev]
        ELSE stack[i]]

\* MirrorStamp gone wrong: the stamp is also written before the submodules
\* are mirrored
MirrorStamp_Early ==
    /\ stack # <<>>
    /\ \/ /\ Top.pc = "loop"
          /\ Top.todo # <<>>
          /\ Top.ndone = 0
          /\ stamp[Top.url] # Top.rev
          /\ stamp' = [stamp EXCEPT ![Top.url] = Top.rev]
          /\ stack' = NoteNested(Top.url, Top.rev)
          /\ UNCHANGED <<runVars, histVars>>
       \/ /\ Top.pc = "loop"
          /\ Top.todo = <<>>
          /\ stamp' = [stamp EXCEPT ![Top.url] = Top.rev]
          /\ Return(Top.rev, NoteNested(Top.url, Top.rev))
    /\ UNCHANGED <<remoteHead, mirrorDir, tmpMirror, localHead, snapVars>>

\* lines 178-181: every submodule is mirrored; write the stamp (temporary file
\* and rename) and return
MirrorStamp ==
    /\ stack # <<>>
    /\ Top.pc = "loop"
    /\ Top.todo = <<>>
    /\ stamp' = [stamp EXCEPT ![Top.url] = Top.rev]
    /\ Return(Top.rev, NoteNested(Top.url, Top.rev))
    /\ UNCHANGED <<remoteHead, mirrorDir, tmpMirror, localHead, snapVars>>

-----------------------------------------------------------------------------
(* task_resolve.py: TaskResolve.run *)

\* a directory of snapshots: absent, or holding the artifacts linked into it
\* and, once written, snapshot.json; `made` tells the directory a run made
\* from another of the same content (0: it was there before the first run)
Absent ==
    [exists |-> FALSE, made |-> 0, hasManifest |-> FALSE, manifest |-> <<>>,
     artifacts |-> {}]

\* ensure_clean_dir: the directory anew, and empty
EmptyDir(run) ==
    [exists |-> TRUE, made |-> run, hasManifest |-> FALSE, manifest |-> <<>>,
     artifacts |-> {}]

\* overlay.yml: one component built from its own spec file, at its master or
\* frozen at a commit, or the first with a distgit of its own followed by the
\* second
Component(name, src, ref, distgit, dref) ==
    [name |-> name, src |-> src, ref |-> ref, distgit |-> distgit, dref |-> dref]

Overlays ==
    {<<Component("A", "A", Branch, NoUrl, Branch)>>,
     <<Component("B", "B", Commit(2), NoUrl, Branch)>>,
     <<Component("A", "A", Branch, "C", Branch),
       Component("B", "B", Commit(2), NoUrl, Branch)>>}

NoSrpm == [pkgname |-> NoUrl, revision |-> 0, distgit_revision |-> 0]

\* a component's record in `expanded`, before it is resolved
Expand(c) ==
    [name |-> c.name, src |-> c.src, ref |-> c.ref, distgit |-> c.distgit,
     dref |-> c.dref, revision |-> 0, distgit_revision |-> 0, srpm |-> NoSrpm]

NoComponent == Expand(Component(NoUrl, NoUrl, Branch, NoUrl, Branch))

\* _ensure_srpm's name: pkgname, and the version and release _rpm_verrel makes
\* of what describe says of the two resolved commits
SrpmName(c) ==
    [pkgname |-> c.name, revision |-> c.revision,
     distgit_revision |-> c.distgit_revision]

NoOpts == [fetch_all |-> FALSE, fetch |-> {}, touch_if_changed |-> FALSE]

OptsSet ==
    [fetch_all : BOOLEAN, fetch : {{}, {"A"}}, touch_if_changed : BOOLEAN]

NoFailure == [cause |-> "none", stack |-> <<>>, repeat |-> FALSE]

NoStart == [snapshot |-> Absent, old |-> Absent, marker |-> 0]

\* RunStart gone wrong: the backup is removed as the run begins
RunStart_RemoveOldFirst ==
    /\ rpc = "idle"
    /\ runs < MaxRuns
    /\ runs' = runs + 1
    /\ opts' \in OptsSet
    /\ tmp_snapshotdir' = EmptyDir(runs + 1)
    /\ old_snapshotdir' = Absent
    /\ comp' = 1
    /\ cur' = Expand(overlay[1])
    /\ expanded' = <<>>
    /\ changed' = TRUE
    /\ rpc' = "src"
    /\ atStart' = [snapshot |-> snapshotdir, old |-> old_snapshotdir, marker |-> marker]
    /\ failure' = NoFailure
    /\ retStat' = NoStat
    /\ UNCHANGED <<overlay, snapshotdir, marker, lastCall, callStat>>
    /\ UNCHANGED <<remoteHead, storeVars, stack>>

\* lines 282-303: the command line is parsed, the staging directory is made
\* anew and empty, the overlay is read
RunStart ==
    /\ rpc = "idle"
    /\ runs < MaxRuns
    /\ runs' = runs + 1
    /\ opts' \in OptsSet
    /\ tmp_snapshotdir' = EmptyDir(runs + 1)
    /\ comp' = 1
    /\ cur' = Expand(overlay[1])
    /\ expanded' = <<>>
    /\ changed' = TRUE
    /\ rpc' = "src"
    /\ atStart' = [snapshot |-> snapshotdir, old |-> old_snapshotdir, marker |-> marker]
    /\ failure' = NoFailure
    /\ retStat' = NoStat
    /\ UNCHANGED <<overlay, snapshotdir, old_snapshotdir, marker, lastCall, callStat>>
    /\ UNCHANGED <<remoteHead, storeVars, stack>>

\* a top-level call of mirror(url, ref, fetch)
CallMirror(url, ref, fetch) ==
    /\ stack' = <<Frame(url, ref, fetch)>>
    /\ callStat' = [valid |-> TRUE, url |-> url,
                    repeat |-> /\ lastCall.valid
                               /\ lastCall.url = url
                               /\ lastCall.ref = ref
                               /\ ~fetch,
                    prev |-> lastCall.rev, rev |-> 0, nlist |-> 0, nrec |-> 0]
    /\ lastCall' = NoCall

\* lines 306-311: the component's source is mirrored at its ref
RunMirrorSrc ==
    /\ rpc = "src"
    /\ IF cur.src # NoUrl
       THEN /\ CallMirror(cur.src, cur.ref, opts.fetch_all \/ cur.name \in opts.fetch)
            /\ rpc' = "src_wait"
       ELSE /\ rpc' = "distgit"
            /\ UNCHANGED <<stack, callStat, lastCall>>
    /\ UNCHANGED <<overlay, opts, comp, cur, expanded, changed, runs>>
    /\ UNCHANGED <<atStart, failure, retStat>>
    /\ UNCHANGED <<remoteHead, storeVars, snapVars>>

\* lines 313-318: so is its distgit
RunMirrorDistgit ==
    /\ rpc = "distgit"
    /\ IF cur.distgit # NoUrl
       THEN /\ CallMirror(cur.distgit, cur.dref, opts.fetch_all \/ cur.name \in opts.fetch)
            /\ rpc' = "distgit_wait"
       ELSE /\ rpc' = "srpm"
            /\ UNCHANGED <<stack, callStat, lastCall>>
    /\ UNCHANGED <<overlay, opts, comp, cur, expanded, changed, runs>>
    /\ UNCHANGED <<atStart, failure, retStat>>
    /\ UNCHANGED <<remoteHead, storeVars, snapVars>>

\* run() ends with an exception or by fatal()
RunFails(cause) ==
    /\ rpc' = "failed"
    /\ failure' = [cause |-> cause, stack |-> <<>>, repeat |-> FALSE]

\* lines 320-321, _ensure_srpm: describe, check out and build the source
\* package, each of which may fail, and link the package into staging
RunEnsureSrpm ==
    /\ rpc = "srpm"
    /\ \/ /\ LET c == [cur EXCEPT !.srpm = SrpmName(cur)] IN
              /\ tmp_snapshotdir' =
                    [tmp_snapshotdir EXCEPT !.artifacts = @ \cup {c.srpm}]
              /\ expanded' = Append(expanded, c)
              /\ IF comp < Len(overlay)
                 THEN /\ comp' = comp + 1
                      /\ cur' = Expand(overlay[comp + 1])
                      /\ rpc' = "src"
                 ELSE /\ rpc' = "write"
                      /\ UNCHANGED <<comp, cur>>
          /\ UNCHANGED failure
       \/ /\ \E cause \in {"describe", "checkout", "build"} : RunFails(cause)
          /\ UNCHANGED <<tmp_snapshotdir, expanded, comp, cur>>
    /\ UNCHANGED <<overlay, opts, changed, runs>>
    /\ UNCHANGED <<atStart, lastCall, callStat, retStat>>
    /\ UNCHANGED <<remoteHead, storeVars, stack, snapshotdir, old_snapshotdir, marker>>

\* lines 327-330: snapshot.json is written into staging
RunWriteManifest ==
    /\ rpc = "write"
    /\ tmp_snapshotdir' =
            [tmp_snapshotdir EXCEPT !.hasManifest = TRUE, !.manifest = expanded]
    /\ rpc' = "rmold"
    /\ UNCHANGED <<overlay, opts, comp, cur, expanded, changed, runs>>
    /\ UNCHANGED <<remoteHead, storeVars, stack, histVars>>
    /\ UNCHANGED <<snapshotdir, old_snapshotdir, marker>>

\* line 332: rmrf(old_snapshotdir)
RunRemoveOld ==
    /\ rpc = "rmold"
    /\ old_snapshotdir' = Absent
    /\ rpc' = "compare"
    /\ UNCHANGED <<overlay, opts, comp, cur, expanded, changed, runs>>
    /\ UNCHANGED <<remoteHead, storeVars, stack, histVars>>
    /\ UNCHANGED <<snapshotdir, tmp_snapshotdir, marker>>

\* cmp -s of the published and the staged snapshot.json
SameManifest(a, b) == a.manifest = b.manifest

\* RunCompare gone wrong: every run counts as a change
RunCompare_AlwaysChanged ==
    /\ rpc = "compare"
    /\ changed' = TRUE
    /\ rpc' = "demote"
    /\ UNCHANGED <<overlay, opts, comp, cur, expanded, runs>>
    /\ UNCHANGED <<remoteHead, storeVars, stack, histVars, snapVars>>

\* lines 334-338: nothing changed when the published snapshot.json exists and
\* is byte for byte the staged one
RunCompare ==
    /\ rpc = "compare"
    /\ LET same == /\ snapshotdir.exists
                   /\ snapshotdir.hasManifest
                   /\ SameManifest(snapshotdir, tmp_snapshotdir)
       IN  /\ changed' = ~same
           /\ rpc' = IF same THEN "discard" ELSE "demote"
    /\ UNCHANGED <<overlay, opts, comp, cur, expanded, runs>>
    /\ UNCHANGED <<remoteHead, storeVars, stack, histVars, snapVars>>

\* RunDemote gone wrong: the published snapshot is removed, not kept as the
\* backup
RunDemote_NoBackup ==
    /\ rpc = "demote"
    /\ IF snapshotdir.exists
       THEN /\ snapshotdir' = Absent
            /\ rpc' = "promote"
            /\ UNCHANGED <<failure, old_snapshotdir>>
       ELSE /\ RunFails("rename")
            /\ UNCHANGED <<snapshotdir, old_snapshotdir>>
    /\ UNCHANGED <<overlay, opts, comp, cur, expanded, changed, runs>>
    /\ UNCHANGED <<atStart, lastCall, callStat, retStat>>
    /\ UNCHANGED <<remoteHead, storeVars, stack, tmp_snapshotdir, marker>>

\* line 339: os.rename(snapshotdir, old_snapshotdir); an OSError when there is
\* no snapshot directory
RunDemote ==
    /\ rpc = "demote"
    /\ IF snapshotdir.exists
       THEN /\ old_snapshotdir' = snapshotdir
            /\ snapshotdir' = Absent
            /\ rpc' = "promote"
            /\ UNCHANGED failure
       ELSE /\ RunFails("rename")
            /\ UNCHANGED <<snapshotdir, old_snapshotdir>>
    /\ UNCHANGED <<overlay, opts, comp, cur, expanded, changed, runs>>
    /\ UNCHANGED <<atStart, lastCall, callStat, retStat>>
    /\ UNCHANGED <<remoteHead, storeVars, stack, tmp_snapshotdir, marker>>

\* lines 340-341: os.rename(tmp_snapshotdir, snapshotdir)
RunPromote ==
    /\ rpc = "promote"
    /\ snapshotdir' = tmp_snapshotdir
    /\ tmp_snapshotdir' = Absent
    /\ rpc' = IF opts.touch_if_changed THEN "touch" ELSE "done"
    /\ UNCHANGED <<overlay, opts, comp, cur, expanded, changed, runs>>
    /\ UNCHANGED <<remoteHead, storeVars, stack, histVars>>
    /\ UNCHANGED <<old_snapshotdir, marker>>

\* lines 342-345: the marker is created if need be and its time set to now
RunTouch ==
    /\ rpc = "touch"
    /\ marker' = runs
    /\ rpc' = "done"
    /\ UNCHANGED <<overlay, opts, comp, cur, expanded, changed, runs>>
    /\ UNCHANGED <<remoteHead, storeVars, stack, histVars>>
    /\ UNCHANGED <<snapshotdir, old_snapshotdir, tmp_snapshotdir>>

\* lines 346-348: rmrf(tmp_snapshotdir)
RunDiscard ==
    /\ rpc = "discard"
    /\ tmp_snapshotdir' = Absent
    /\ rpc' = "done"
    /\ UNCHANGED <<overlay, opts, comp, cur, expanded, changed, runs>>
    /\ UNCHANGED <<remoteHead, storeVars, stack, histVars>>
    /\ UNCHANGED <<snapshotdir, old_snapshotdir, marker>>

\* the process ends, and with it run()'s variables
RunExit ==
    /\ rpc \in {"done", "failed"}
    /\ rpc' = "idle"
    /\ opts' = NoOpts
    /\ comp' = 0
    /\ cur' = NoComponent
    /\ expanded' = <<>>
    /\ changed' = TRUE
    /\ atStart' = NoStart
    /\ failure' = NoFailure
    /\ retStat' = NoStat
    /\ UNCHANGED <<overlay, runs, lastCall, callStat>>
    /\ UNCHANGED <<remoteHead, storeVars, stack, snapVars>>

\* between two runs, a commit is pushed to a remote's master
RemotePush ==
    /\ rpc = "idle"
    /\ \E u \in Urls :
        /\ remoteHead[u] < MaxRev
        /\ remoteHead' = [remoteHead EXCEPT ![u] = @ + 1]
    /\ lastCall' = NoCall
    /\ UNCHANGED <<storeVars, stack, runVars, snapVars>>
    /\ UNCHANGED <<atStart, failure, callStat, retStat>>

\* nothing mirrored, nothing running
LocalIdle ==
    /\ mirrorDir = [u \in Urls |-> FALSE]
    /\ tmpMirror = [u \in Urls |-> FALSE]
    /\ localHead = [u \in Urls |-> 0]
    /\ stamp = [u \in Urls |-> 0]
    /\ stack = <<>>
    /\ rpc = "idle"
    /\ opts = NoOpts
    /\ comp = 0
    /\ cur = NoComponent
    /\ expanded = <<>>
    /\ changed = TRUE
    /\ old_snapshotdir = Absent
    /\ tmp_snapshotdir = Absent
    /\ marker = 0
    /\ runs = 0
    /\ atStart = NoStart
    /\ failure = NoFailure
    /\ lastCall = NoCall
    /\ callStat = NoStat
    /\ retStat = NoStat

MainIdle ==
    /\ graph = "dag"
    /\ remoteHead = [u \in Urls |-> 1]
    /\ LocalIdle

\* no two calls side by side
ParIdle ==
    /\ procs = <<>>
    /\ sched = [mode |-> "none", overlap |-> FALSE]
    /\ stampTmp = [u \in Urls |-> 0]

PureIdle ==
    /\ fpc = "idle"
    /\ in_parent = <<>>
    /\ in_relpath = <<>>
    /\ out_url = NotCalled
    /\ in_description = <<>>
    /\ out_describe = None
    /\ fn_args = <<>>
    /\ fn_result = <<>>
    /\ tmpdirs = {}
    /\ ParIdle
    /\ fs = {}

\* a fresh working directory: nothing mirrored, no backup, no staging, and
\* either no snapshot directory or an empty one
Init ==
    /\ MainIdle
    /\ overlay \in Overlays
    /\ snapshotdir \in {Absent, EmptyDir(0)}
    /\ PureIdle

Next ==
    \/ (MirrorEnsure /\ UNCHANGED fixedVars)
    \/ (MirrorResolve /\ UNCHANGED fixedVars)
    \/ (MirrorList /\ UNCHANGED fixedVars)
    \/ (MirrorRecurse /\ UNCHANGED fixedVars)
    \/ (MirrorStamp /\ UNCHANGED fixedVars)
    \/ (RunStart /\ UNCHANGED fixedVars)
    \/ (RunMirrorSrc /\ UNCHANGED fixedVars)
    \/ (RunMirrorDistgit /\ UNCHANGED fixedVars)
    \/ (RunEnsureSrpm /\ UNCHANGED fixedVars)
    \/ (RunWriteManifest /\ UNCHANGED fixedVars)
    \/ (RunRemoveOld /\ UNCHANGED fixedVars)
    \/ (RunCompare /\ UNCHANGED fixedVars)
    \/ (RunDemote /\ UNCHANGED fixedVars)
    \/ (RunPromote /\ UNCHANGED fixedVars)
    \/ (RunTouch /\ UNCHANGED fixedVars)
    \/ (RunDiscard /\ UNCHANGED fixedVars)
    \/ (RunExit /\ UNCHANGED fixedVars)
    \/ (RemotePush /\ UNCHANGED fixedVars)

Spec == Init /\ [][Next]_vars

-----------------------------------------------------------------------------
(* The inputs the two functions are applied to *)

MaxSegs == 3    \* path segments of a parent URL
MaxUp == 5      \* leading "../" of a relative submodule URL
MaxCount == 12  \* commits since the tag, in a description

SchemeHost == <<"h", "t", "t", "p", "s", ":", "/", "/", "e", "x", "a", "m", "p", "l", "e", ".", "o", "r", "g">>

SegNames == {<<"g", "r", "p">>, <<"r", "e", "p", "o">>, <<"a">>, <<"b">>, <<"c">>}

RECURSIVE Paths(_)
Paths(k) ==
    IF k = 0 THEN {<<>>}
    ELSE {p \o <<"/">> \o seg : p \in Paths(k - 1), seg \in SegNames}

\* parent URLs: scheme://host, 0..MaxSegs path segments, with or without a
\* trailing slash
Parents ==
    {SchemeHost \o p \o t :
        p \in UNION {Paths(k) : k \in 0..MaxSegs}, t \in {<<>>, <<"/">>}}

RECURSIVE Ups(_)
Ups(n) == IF n = 0 THEN <<>> ELSE DotDotSlash \o Ups(n - 1)

RelTails == {<<>>, <<"o", "t", "h", "e", "r">>, <<"x">>}

\* _list_submodules_in hands over only URLs that start with "../"
RelPaths == {Ups(n) \o t : n \in 1..MaxUp, t \in RelTails}

RECURSIVE Rep(_, _)
Rep(s, n) == IF n = 0 THEN <<>> ELSE s \o Rep(s, n - 1)

Hashes ==
    {Rep(<<"a", "b", "c", "d", "e", "f", "0", "1", "2", "3">>, 4), Rep(<<"0">>, HashLen), Rep(<<"f", "e">>, 20),
     Rep(<<"9", "a", "7", "c">>, 10)}

Tags ==
    {<<"v", "1", ".", "2", ".", "0">>,
     <<"f", "o", "o", "-", "3", ".", "0">>,
     <<"v", "2", ".", "1", "-", "b", "e", "t", "a">>,
     <<"l", "i", "b", "-", "g", "t", "k">>,
     <<"1">>}

\* ---- make_absolute_url on every parent and relative path ----
UrlInit ==
    /\ fpc = "call"
    /\ in_parent \in Parents
    /\ in_relpath \in RelPaths
    /\ out_url = NotCalled
    /\ in_description = <<>>
    /\ out_describe = None
    /\ fn_args = <<>>
    /\ fn_result = <<>>
    /\ tmpdirs = {}
    /\ ParIdle
    /\ fs = {}
    /\ MainIdle
    /\ overlay = <<>>
    /\ snapshotdir = Absent

CallMakeAbsoluteUrl ==
    /\ fpc = "call"
    /\ out_url' = make_absolute_url(in_parent, in_relpath)
    /\ fpc' = "ret"
    /\ UNCHANGED <<in_parent, in_relpath, in_description, out_describe, fn_args, fn_result, tmpdirs, procs, sched, stampTmp, fs, graph, mainVars>>

UrlNext == CallMakeAbsoluteUrl

SpecUrl == UrlInit /\ [][UrlNext]_vars

\* ---- describe on every description git can print ----
DescInit ==
    /\ fpc = "call"
    /\ \E tag \in Tags \cup {None}, count \in 0..MaxCount, hash \in Hashes :
            in_description = GitDescribeLong(tag, count, hash)
    /\ out_describe = None
    /\ in_parent = <<>>
    /\ in_relpath = <<>>
    /\ out_url = NotCalled
    /\ fn_args = <<>>
    /\ fn_result = <<>>
    /\ tmpdirs = {}
    /\ ParIdle
    /\ fs = {}
    /\ MainIdle
    /\ overlay = <<>>
    /\ snapshotdir = Absent

CallDescribe ==
    /\ fpc = "call"
    /\ out_describe' = describe(in_description)
    /\ fpc' = "ret"
    /\ UNCHANGED <<in_parent, in_relpath, out_url, in_description, fn_args, fn_result, tmpdirs, procs, sched, stampTmp, fs, graph, mainVars>>

DescNext == CallDescribe

SpecDescribe == DescInit /\ [][DescNext]_vars

-----------------------------------------------------------------------------
(* Claims about GitMirror.mirror (Spec) *)

\* C1: a top-level mirror(url, ref, fetch=false) that repeats the successful
\* call before it, with the remote and the store unchanged in between, does
\* not fail, lists no submodules, makes no recursive call and returns the
\* commit the first call returned.
C1_MirrorIdempotent ==
    /\ (retStat.valid /\ retStat.repeat)
            => /\ retStat.rev = retStat.prev
               /\ retStat.nlist = 0
               /\ retStat.nrec = 0
    /\ failure.cause = "mirror" => ~failure.repeat

\* a repeated call returned, for a commit that declares a submodule
C1_Witness ==
    /\ retStat.valid
    /\ retStat.repeat
    /\ Submodules(retStat.url, retStat.rev) # <<>>
    /\ stamp[retStat.url] = retStat.rev

\* the stamp of u changes only to the commit resolved by the call on top of
\* the stack, a call for u every submodule of which has returned
StampWrittenLast ==
    \A u \in Urls :
        stamp'[u] # stamp[u] =>
            /\ stack # <<>>
            /\ Top.url = u
            /\ stamp'[u] = Top.rev
            /\ Top.todo = <<>>
            /\ Top.ndone = Len(Submodules(u, Top.rev))

\* a step in which a mirror() call fails, with the calls it is nested in
MirrorFails == stack # <<>> /\ rpc' = "failed"

\* C2 (as claimed): the stamp is written only after every submodule's mirror
\* call has returned, and when a mirror call fails the stamp of every active
\* call's repository is what it was when that call began.
C2_Claim ==
    [][/\ StampWrittenLast
       /\ MirrorFails =>
            \A i \in 1..Len(stack) : stamp'[stack[i].url] = stack[i].stamp0]_vars

\* C2 (amended): the stamp is written only after every submodule's mirror call
\* has returned, and when a mirror call fails the stamp of every active call's
\* repository is not the commit that call resolved: it is what it was when
\* the call began, or the commit of the last nested call for the same URL
\* that completed.
C2_StampOrdering ==
    [][/\ StampWrittenLast
       /\ MirrorFails =>
            \A i \in 1..Len(stack) :
                /\ stack[i].rev # 0 => stamp'[stack[i].url] # stack[i].rev
                /\ stamp'[stack[i].url] =
                        IF stack[i].nested # 0 THEN stack[i].nested
                        ELSE stack[i].stamp0]_vars

\* a submodule two levels down failed to mirror, after its sibling had returned
C2_Witness ==
    /\ rpc = "failed"
    /\ failure.cause = "mirror"
    /\ Len(failure.stack) = 3
    /\ failure.stack[2].ndone > 0
    /\ stamp[failure.stack[1].url] # failure.stack[1].rev
    /\ stamp[failure.stack[2].url] # failure.stack[2].rev

-----------------------------------------------------------------------------
(* Claims about TaskResolve.run (Spec) *)

ComponentFailures == {"mirror", "describe", "checkout", "build"}

\* C3: when mirroring, describing, checking out or building a component fails,
\* the snapshot directory and the backup directory are what they were when the
\* run began.
C3_NoPartialCommit ==
    (rpc = "failed" /\ failure.cause \in ComponentFailures)
        => /\ snapshotdir = atStart.snapshot
           /\ old_snapshotdir = atStart.old

\* the second component failed to build, with a snapshot and a backup published
C3_Witness ==
    /\ rpc = "failed"
    /\ failure.cause = "build"
    /\ comp = 2
    /\ snapshotdir.hasManifest
    /\ old_snapshotdir.hasManifest
    /\ tmp_snapshotdir.artifacts # {}

\* C4 (as claimed): once a snapshot is published, the snapshot directory holds
\* a complete manifest in every state of a run, the previous one or the new one.
C4_Claim ==
    (rpc # "idle" /\ atStart.snapshot.hasManifest)
        => /\ snapshotdir.exists
           /\ snapshotdir.hasManifest
           /\ \/ snapshotdir.manifest = atStart.snapshot.manifest
              \/ snapshotdir.manifest = expanded

\* C5: a successful run whose staged manifest is the published one leaves the
\* snapshot directory as it was, removes staging and does not touch the marker.
C5_NoChangeRun ==
    (/\ rpc = "done"
     /\ atStart.snapshot.hasManifest
     /\ expanded = atStart.snapshot.manifest)
        => /\ snapshotdir = atStart.snapshot
           /\ tmp_snapshotdir = Absent
           /\ marker = atStart.marker

\* such a run, asked to touch the marker if anything changed
C5_Witness ==
    /\ rpc = "done"
    /\ atStart.snapshot.hasManifest
    /\ expanded = atStart.snapshot.manifest
    /\ opts.touch_if_changed
    /\ ~changed

\* the source packages of a manifest
Srpms(m) == {m[i].srpm : i \in 1..Len(m)}

\* C6: a successful run whose staged manifest differs from the published one
\* ends with the new manifest and its artifacts published and the manifest
\* published before as the backup.
C6_PromotionOnChange ==
    (/\ rpc = "done"
     /\ atStart.snapshot.hasManifest
     /\ expanded # atStart.snapshot.manifest)
        => /\ snapshotdir.hasManifest
           /\ snapshotdir.manifest = expanded
           /\ snapshotdir.artifacts = Srpms(expanded)
           /\ snapshotdir.made = runs
           /\ old_snapshotdir = atStart.snapshot

\* such a run, after which a component's revision is another than before
C6_Witness ==
    /\ rpc = "done"
    /\ atStart.snapshot.hasManifest
    /\ expanded[1].revision # atStart.snapshot.manifest[1].revision
    /\ snapshotdir.manifest = expanded
    /\ old_snapshotdir.hasManifest

\* C7 (as claimed): a run that finds no difference leaves the backup of the
\* manifest replaced before as it was.
C7_Claim ==
    (rpc = "done" /\ ~changed /\ atStart.old.hasManifest)
        => old_snapshotdir = atStart.old

-----------------------------------------------------------------------------
(* Claims about make_absolute_url (SpecUrl) *)

\* the number of leading "../" of a relative path
RECURSIVE LeadingUps(_)
LeadingUps(rel) ==
    IF startswith(rel, DotDotSlash) THEN 1 + LeadingUps(SliceFrom(rel, 3)) ELSE 0

\* the number of segments of a URL's path after the host
PathSegments(url) ==
    LET u == IF endswith(url, <<"/">>) THEN Slice(url, 0, Len(url) - 1) ELSE url
        afterScheme == find(u, <<":", "/", "/">>, 0) + 3
    IN  Cardinality({i \in afterScheme..(Len(u) - 1) : OccursAt(u, <<"/">>, i)})

Url_grp_repo == <<"h", "t", "t", "p", "s", ":", "/", "/", "e", "x", "a", "m", "p", "l", "e", ".", "o", "r", "g", "/", "g", "r", "p", "/", "r", "e", "p", "o">>
Url_a_b_c == <<"h", "t", "t", "p", "s", ":", "/", "/", "e", "x", "a", "m", "p", "l", "e", ".", "o", "r", "g", "/", "a", "/", "b", "/", "c">>
Url_other == <<"h", "t", "t", "p", "s", ":", "/", "/", "e", "x", "a", "m", "p", "l", "e", ".", "o", "r", "g", "/", "o", "t", "h", "e", "r">>
Url_x == <<"h", "t", "t", "p", "s", ":", "/", "/", "e", "x", "a", "m", "p", "l", "e", ".", "o", "r", "g", "/", "x">>
Rel_other == <<".", ".", "/", "o", "t", "h", "e", "r">>
Rel_x == <<".", ".", "/", ".", ".", "/", "x">>

\* C8 (as claimed): make_absolute_url("https://example.org/grp/repo", "../other")
\* returns "https://example.org/other", and
\* make_absolute_url("https://example.org/a/b/c", "../../x") returns
\* "https://example.org/x".
C8_Claim ==
    fpc = "ret" =>
        /\ (in_parent = Url_grp_repo /\ in_relpath = Rel_other)
                => out_url = Returned(Url_other)
        /\ (in_parent = Url_a_b_c /\ in_relpath = Rel_x)
                => out_url = Returned(Url_x)

\* C9 (as claimed): when the relative path has more leading "../" than the
\* parent URL's path has segments, make_absolute_url returns no URL.
C9_Claim ==
    (fpc = "ret" /\ LeadingUps(in_relpath) > PathSegments(in_parent))
        => out_url.kind # "ok"

-----------------------------------------------------------------------------
(* Claims about describe (SpecDescribe) *)

Tag_v120 == <<"v", "1", ".", "2", ".", "0">>
ExampleHash == Rep(<<"a", "b", "c", "d", "e", "f", "0", "1", "2", "3">>, 4)

\* C10 (as claimed): a description <tag>-<count>-g<hash> parses to the tag
\* <tag> alone, with the hash; a description as long as a full commit id
\* parses to (None, description).
C10_Claim ==
    fpc = "ret" =>
        /\ \A tag \in Tags, count \in 0..MaxCount, hash \in Hashes :
                in_description = GitDescribeLong(tag, count, hash)
                    => out_describe = <<tag, hash>>
        /\ Len(in_description) = HashLen => out_describe = <<None, in_description>>

\* C10 (amended): a description <tag>-<count>-g<hash> parses to everything
\* before its last "-g", which is <tag>-<count>, with the hash; a description
\* as long as a full commit id parses to (None, description).
C10_DescribeSplitsAtLastDashG ==
    fpc = "ret" =>
        /\ \A tag \in Tags, count \in 0..MaxCount, hash \in Hashes :
                in_description = GitDescribeLong(tag, count, hash)
                    => out_describe = <<tag \o <<"-">> \o Digits(count), hash>>
        /\ Len(in_description) = HashLen => out_describe = <<None, in_description>>

C10_Witness ==
    /\ fpc = "ret"
    /\ in_description = GitDescribeLong(Tag_v120, 3, ExampleHash)
    /\ out_describe = <<Tag_v120 \o <<"-", "3">>, ExampleHash>>

-----------------------------------------------------------------------------
(* TaskResolve's helper functions, each applied to enumerated arguments *)

\* what a helper call leaves alone
restVars == <<in_parent, in_relpath, out_url, in_description, out_describe, procs, sched, stampTmp, fs, graph, mainVars>>

otherVars == <<restVars, tmpdirs>>

OtherIdle ==
    /\ in_parent = <<>>
    /\ in_relpath = <<>>
    /\ out_url = NotCalled
    /\ in_description = <<>>
    /\ out_describe = None
    /\ tmpdirs = {}
    /\ ParIdle
    /\ fs = {}
    /\ MainIdle
    /\ overlay = <<>>
    /\ snapshotdir = Absent

\* str.replace(old, new), old and new one character each
replace(s, old, new) == [i \in 1..Len(s) |-> IF s[i] = old THEN new ELSE s[i]]

\* the prefixes are tried once each, in the order given
RECURSIVE _strip_all_prefixes(_, _)
_strip_all_prefixes(s, prefixes) ==
    IF prefixes = <<>> THEN s
    ELSE LET prefix == Head(prefixes)
             s1 == IF startswith(s, prefix) THEN SliceFrom(s, Len(prefix)) ELSE s
         IN _strip_all_prefixes(s1, Tail(prefixes))

\* Python's `x or default` on strings: None and the empty string are false
Or(x, default) == IF x = None \/ x = <<>> THEN default ELSE x

_rpm_verrel(component, upstream_tag, upstream_rev, distgit_desc) ==
    LET rpm_version == replace(_strip_all_prefixes(Or(upstream_tag, <<"0">>),
                                                   << <<"v">>, component.pkgname \o <<"-">> >>),
                               "-", ".")
        gitdesc0 == Or(upstream_rev, <<>>)
        gitdesc == IF distgit_desc # None
                   THEN (IF gitdesc0 # <<>> THEN gitdesc0 \o <<".">> ELSE gitdesc0)
                            \o replace(distgit_desc, "-", ".")
                   ELSE gitdesc0
    IN <<rpm_version, gitdesc>>

Pkgnames == {<<"f", "o", "o">>, <<"v", "i", "m">>, <<"l", "i", "b">>}

\* what follows "<pkgname>-" in a tag
Rests == {<<"3", ".", "0">>, <<"8", ".", "0">>, <<"1", ".", "0", "-", "r", "c", "1">>, <<"v", "2">>}

UpstreamTags ==
    Tags \cup {p \o <<"-">> \o rest : p \in Pkgnames, rest \in Rests} \cup {None, <<>>}

ShortRev == <<"a", "b", "c", "d", "e", "f", "0">>

DistgitDescs == {None, ShortRev, <<"1", ".", "0", "-", "2", "-", "g">> \o ShortRev}

\* ---- _rpm_verrel on every package name and tag ----
VerrelInit ==
    /\ fpc = "call"
    /\ fn_args \in [pkgname : Pkgnames, upstream_tag : UpstreamTags,
                    upstream_rev : {None, ShortRev}, distgit_desc : DistgitDescs]
    /\ fn_result = <<>>
    /\ OtherIdle

CallRpmVerrel ==
    /\ fpc = "call"
    /\ fn_result' = _rpm_verrel([pkgname |-> fn_args.pkgname], fn_args.upstream_tag,
                                fn_args.upstream_rev, fn_args.distgit_desc)
    /\ fpc' = "ret"
    /\ UNCHANGED <<fn_args, otherVars>>

VerrelNext == CallRpmVerrel

SpecVerrel == VerrelInit /\ [][VerrelNext]_vars

Tag_foo_30 == <<"f", "o", "o", "-", "3", ".", "0">>
Tag_v21beta == <<"v", "2", ".", "1", "-", "b", "e", "t", "a">>

\* C11: for every pkgname p and every upstream tag t, a tag of the form
\* p-<rest> gives the version <rest> with every "-" turned into "."; tag
\* foo-3.0 of pkgname foo gives 3.0, tag v2.1-beta gives 2.1.beta, and an
\* absent tag gives 0.
C11_Claim ==
    fpc = "ret" =>
        LET p == fn_args.pkgname
            t == fn_args.upstream_tag
            version == fn_result[1]
        IN /\ \A rest \in Rests : t = p \o <<"-">> \o rest => version = replace(rest, "-", ".")
           /\ (p = <<"f", "o", "o">> /\ t = Tag_foo_30) => version = <<"3", ".", "0">>
           /\ t = Tag_v21beta => version = <<"2", ".", "1", ".", "b", "e", "t", "a">>
           /\ t = None => version = <<"0">>

-----------------------------------------------------------------------------
(* TaskResolve._expand_component and the refs run() hands to mirror().     *)
(* A dict is a function from the keys it has; no key is present with a     *)
(* null value.                                                             *)

has(d, k) == k \in DOMAIN d
get(d, k) == IF has(d, k) THEN d[k] ELSE None
set(d, k, v) == [x \in DOMAIN d \cup {k} |-> IF x = k THEN v ELSE d[x]]
del(d, k) == [x \in DOMAIN d \ {k} |-> d[x]]
EmptyDict == <<>>

\* _ensure_key_or gone wrong: the value handed over replaces the one set
_ensure_key_or_overwrite(d, k, v) == set(d, k, v)

\* the dict after _ensure_key_or(d, k, v); the value it returns is
\* get(<that dict>, k)
_ensure_key_or(d, k, v) == IF has(d, k) THEN d ELSE set(d, k, v)

\* _one_of_keys(dictval, first, *args), keys == <<first>> \o args
RECURSIVE _one_of_keys(_, _)
_one_of_keys(dictval, keys) ==
    IF keys = <<>> THEN None
    ELSE IF get(dictval, Head(keys)) # None THEN get(dictval, Head(keys))
    ELSE _one_of_keys(dictval, Tail(keys))

Max(a, b) == IF a > b THEN a ELSE b

_url_to_projname(url) ==
    LET rcolon == rfind(url, <<":">>)
        rslash == rfind(url, <<"/">>)
        basename == SliceFrom(url, Max(rcolon, rslash) + 1)
    IN IF endswith(basename, <<".", "g", "i", "t">>)
       THEN Slice(basename, 0, Len(basename) - 4)
       ELSE basename

\* the loop of _expand_srckey over the aliases still to try
RECURSIVE ExpandAlias(_, _)
ExpandAlias(val, aliases) ==
    IF aliases = <<>> THEN val
    ELSE LET namec == Head(aliases).name \o <<":">>
         IN IF ~startswith(val, namec) THEN ExpandAlias(val, Tail(aliases))
            ELSE Head(aliases).url \o SliceFrom(val, Len(namec))

\* overlay.yml: aliases and distgit/prefix
Aliases ==
    << [name |-> <<"g", "h">>, url |-> <<"h", "t", "t", "p", "s", ":", "/", "/", "h", "/">>],
       [name |-> <<"p", "k">>, url |-> <<"h", "t", "t", "p", "s", ":", "/", "/", "p", "/">>] >>

_distgit_prefix == <<"p", "k">>

_expand_srckey(component, key) == ExpandAlias(component[key], Aliases)

S_distgit == <<"d", "i", "s", "t", "g", "i", "t">>
S_internal == <<"i", "n", "t", "e", "r", "n", "a", "l">>
S_master == <<"m", "a", "s", "t", "e", "r">>

Outcome(kind, component) == [kind |-> kind, component |-> component]

\* lines 109-111 and 119-120: branch defaults to master unless a tag is set
DefaultBranch(d) ==
    IF get(d, "tag") = None
    THEN set(d, "branch", IF has(d, "branch") THEN d["branch"] ELSE S_master)
    ELSE d

\* lines 113-122, for a component that has its distgit dict
ExpandDistgit(component, distgit, name) ==
    LET dg1 == _ensure_key_or(distgit, "name", name)
        pkgname_default == get(dg1, "name")
        dg2 == _ensure_key_or(dg1, "src", _distgit_prefix \o <<":">> \o dg1["name"])
        dg4 == set(dg2, "src", _expand_srckey(dg2, "src"))
        dg5 == DefaultBranch(dg4)
    IN _ensure_key_or(set(component, "distgit", dg5), "pkgname", pkgname_default)

_expand_component(component) ==
    LET src == get(component, "src")
        spec == get(component, "spec")
    IN IF src = None THEN Outcome("fatal", component)
       ELSE IF spec # None /\ spec # S_internal THEN Outcome("ValueError", component)
       ELSE IF src # S_distgit
       THEN LET c1 == set(component, "src", _expand_srckey(component, "src"))
                c2 == _ensure_key_or(c1, "name", _url_to_projname(c1["src"]))
                name == get(c2, "name")
                c3 == IF spec # S_internal THEN _ensure_key_or(c2, "distgit", EmptyDict) ELSE c2
                c4 == DefaultBranch(c3)
            IN IF spec # S_internal
               THEN Outcome("ok", ExpandDistgit(c4, c4["distgit"], name))
               ELSE Outcome("ok", _ensure_key_or(c4, "pkgname", name))
       ELSE LET c1 == del(component, "src")
            IN IF ~has(c1, "distgit") THEN Outcome("fatal", c1)
               ELSE IF get(c1["distgit"], "name") = None THEN Outcome("fatal", c1)
               ELSE LET name == c1["distgit"]["name"]
                        c2 == _ensure_key_or(c1, "name", name)
                        c4 == DefaultBranch(c2)
                    IN IF spec # S_internal
                       THEN Outcome("ok", ExpandDistgit(c4, c4["distgit"], name))
                       ELSE Outcome("ok", _ensure_key_or(c4, "pkgname", name))

RefKeys == <<"freeze", "branch", "tag">>

\* run(), lines 305-319: the mirror() calls made for one component, as
\* (url, ref) pairs; a distgit dict without 'src' raises KeyError
MirrorCalls(component) ==
    LET srcCall == IF has(component, "src")
                   THEN << <<component["src"], _one_of_keys(component, RefKeys)>> >>
                   ELSE <<>>
    IN IF ~has(component, "distgit") THEN [kind |-> "ok", calls |-> srcCall]
       ELSE IF ~has(component["distgit"], "src") THEN [kind |-> "KeyError", calls |-> srcCall]
       ELSE [kind |-> "ok",
             calls |-> srcCall \o << <<component["distgit"]["src"],
                                       _one_of_keys(component["distgit"], RefKeys)>> >>]

Pick(full, keys) == [k \in keys |-> full[k]]

RefValues == [freeze |-> ShortRev, tag |-> <<"v", "1">>, branch |-> <<"d", "e", "v">>]

\* distgit dicts: any of name, src, freeze, tag, branch set
DistgitDicts ==
    {Pick([name |-> <<"d", "g">>, src |-> <<"p", "k", ":", "r", "p", "m", "s", "/", "d", "g">>,
           freeze |-> RefValues.freeze, tag |-> RefValues.tag, branch |-> RefValues.branch], keys) :
        keys \in SUBSET {"name", "src", "freeze", "tag", "branch"}}

Srcs == {<<"g", "h", ":", "o", "r", "g", "/", "f", "o", "o", ".", "g", "i", "t">>, S_distgit}

\* components: src set, any of name, pkgname, spec, freeze, tag, branch and
\* distgit set
ComponentDicts ==
    {Pick([src |-> src, name |-> <<"c", "o", "m", "p">>, pkgname |-> <<"p", "k", "g">>,
           spec |-> S_internal, freeze |-> RefValues.freeze, tag |-> RefValues.tag,
           branch |-> RefValues.branch, distgit |-> distgit], keys \cup {"src"}) :
        src \in Srcs, distgit \in DistgitDicts,
        keys \in SUBSET {"name", "pkgname", "spec", "freeze", "tag", "branch", "distgit"}}

\* ---- _expand_component and the mirror() calls, on every component ----
ExpandInit ==
    /\ fpc = "call"
    /\ fn_args \in ComponentDicts
    /\ fn_result = <<>>
    /\ OtherIdle

CallExpandComponent ==
    /\ fpc = "call"
    /\ LET out == _expand_component(fn_args)
       IN fn_result' = [kind |-> out.kind, component |-> out.component,
                        mirror |-> IF out.kind = "ok" THEN MirrorCalls(out.component)
                                   ELSE [kind |-> "none", calls |-> <<>>]]
    /\ fpc' = "ret"
    /\ UNCHANGED <<fn_args, otherVars>>

ExpandNext == CallExpandComponent

SpecExpand == ExpandInit /\ [][ExpandNext]_vars

\* the ref the spec's order freeze > tag > branch picks from a record as
\* written in overlay.yml
RefByPrecedence(d) ==
    IF has(d, "freeze") THEN d["freeze"]
    ELSE IF has(d, "tag") THEN d["tag"]
    ELSE IF has(d, "branch") THEN d["branch"]
    ELSE S_master

\* C12: for every component and every distgit record, the ref handed to
\* mirror is freeze if set, otherwise tag if set, otherwise branch, branch
\* defaulting to master only when no tag is set; a record that sets both tag
\* and branch is mirrored at the tag.
C12_Claim ==
    (fpc = "ret" /\ fn_result.kind = "ok" /\ fn_result.mirror.kind = "ok") =>
        LET calls == fn_result.mirror.calls
            out == fn_result.component
        IN /\ has(out, "src") => calls[1][2] = RefByPrecedence(fn_args)
           /\ has(out, "distgit") =>
                calls[Len(calls)][2] =
                    RefByPrecedence(IF has(fn_args, "distgit") THEN fn_args["distgit"] ELSE EmptyDict)

DistgitNames(c) ==
    /\ has(c, "distgit")
    /\ has(c["distgit"], "name")
    /\ (c["src"] = S_distgit \/ get(c, "spec") # S_internal)

-----------------------------------------------------------------------------
(* GitMirror._get_mirrordir, applied to pairs of URIs *)

\* self.mirrordir
mirrordir == <<"s", "r", "c">>

Invalid_uri == [kind |-> "Exception", path |-> <<>>]

\* _get_mirrordir gone wrong: the scheme is left out of the path
_get_mirrordir_no_scheme(uri, prefix) ==
    LET colon == find(uri, <<":", "/", "/">>, 0)
    IN IF colon >= 0
       THEN [kind |-> "ok", path |-> mirrordir \o <<"/">> \o SliceFrom(uri, colon + 3)]
       ELSE Invalid_uri

_get_mirrordir(uri, prefix) ==
    LET colon == find(uri, <<":", "/", "/">>, 0)
    IN IF colon >= 0
       THEN LET scheme == Slice(uri, 0, colon)
                rest == SliceFrom(uri, colon + 3)
                prefix1 == IF prefix # <<>> THEN prefix \o <<"/">> ELSE prefix
            IN [kind |-> "ok", path |-> mirrordir \o <<"/">> \o prefix1 \o scheme \o <<"/">> \o rest]
       ELSE Invalid_uri

UriSchemes == {<<"a">>, <<"a", "/", "b">>, <<"g", "i", "t">>}

UriRests ==
    {<<"c">>, <<"b", "/", "c">>, <<"b", "/", "c", "/">>, <<"b", "/", "c", ".", "t", "m", "p">>,
     <<"b", ":", "/", "/", "c">>, <<>>}

\* URIs with "://" somewhere, and strings without
Uris ==
    {s \o <<":", "/", "/">> \o r : s \in UriSchemes, r \in UriRests}
        \cup {<<"a", ":", "/", "b">>, <<"b", "/", "c">>}

\* ---- _get_mirrordir on two URIs, as mirror(), checkout() and describe()
\* call it: without a prefix ----
MirrordirInit ==
    /\ fpc = "call"
    /\ fn_args \in Uris \X Uris
    /\ fn_result = <<>>
    /\ OtherIdle

CallGetMirrordir ==
    /\ fpc = "call"
    /\ fn_result' = <<_get_mirrordir(fn_args[1], <<>>), _get_mirrordir(fn_args[2], <<>>)>>
    /\ fpc' = "ret"
    /\ UNCHANGED <<fn_args, otherVars>>

MirrordirNext == CallGetMirrordir

SpecMirrordir == MirrordirInit /\ [][MirrordirNext]_vars

SchemeOf(uri) == Slice(uri, 0, find(uri, <<":", "/", "/">>, 0))

-----------------------------------------------------------------------------
(* TaskResolve._generate_srpm after rpmbuild has run: the .src.rpm files   *)
(* of the distgit checkout and the link into the staging directory         *)

DotSrcRpm == <<".", "s", "r", "c", ".", "r", "p", "m">>

\* the files with the source-package extension, lines 201-204
Srpms_in(listing) == {fname \in listing : endswith(fname, DotSrcRpm)}

\* lines 205-210 gone wrong: of several source packages one is taken
CollectSrpm_takes_one(listing, staging, target) ==
    LET srpms == Srpms_in(listing)
    IN IF Cardinality(srpms) = 0
       THEN [kind |-> fatal.kind, staging |-> staging]
       ELSE [kind |-> "ok",
             staging |-> staging \cup {[name |-> target, from |-> CHOOSE f \in srpms : TRUE]}]

\* lines 201-210: fatal() ends the run; otherwise the one source package is
\* linked into the staging directory under the name `target`
CollectSrpm(listing, staging, target) ==
    LET srpms == Srpms_in(listing)
    IN IF Cardinality(srpms) = 0 THEN [kind |-> fatal.kind, staging |-> staging]
       ELSE IF Cardinality(srpms) > 1 THEN [kind |-> fatal.kind, staging |-> staging]
       ELSE [kind |-> "ok",
             staging |-> staging \cup {[name |-> target, from |-> CHOOSE f \in srpms : TRUE]}]

\* what rpmbuild, the preparation command and the checkout can leave in the
\* distgit checkout
CheckoutFiles ==
    {<<"f", "o", "o", ".", "s", "p", "e", "c">>,
     <<"f", "o", "o", "-", "1">> \o DotSrcRpm,
     <<"f", "o", "o", "-", "2">> \o DotSrcRpm,
     <<"o", "l", "d">> \o DotSrcRpm,
     DotSrcRpm,
     <<"f", "o", "o">> \o DotSrcRpm \o <<".", "b", "a", "k">>,
     <<"f", "o", "o", ".", "t", "a", "r", ".", "g", "z">>}

SrpmTarget == <<"f", "o", "o", "-", "1", "-", "r", ".", "t", "e", "m", "p">> \o DotSrcRpm

\* the staging directory: empty, or holding an earlier component's package
Stagings == {{}, {[name |-> <<"b", "a", "r", ".", "t", "e", "m", "p">> \o DotSrcRpm,
                   from |-> <<"b", "a", "r", "-", "1">> \o DotSrcRpm]}}

\* ---- the end of _generate_srpm on every content of the checkout ----
SrpmInit ==
    /\ fpc = "call"
    /\ fn_args \in [listing : SUBSET CheckoutFiles, staging : Stagings]
    /\ fn_result = <<>>
    /\ OtherIdle

CallCollectSrpm ==
    /\ fpc = "call"
    /\ fn_result' = CollectSrpm(fn_args.listing, fn_args.staging, SrpmTarget)
    /\ fpc' = "ret"
    /\ UNCHANGED <<fn_args, otherVars>>

SrpmNext == CallCollectSrpm

SpecSrpm == SrpmInit /\ [][SrpmNext]_vars

\* how many files of the checkout end in ".src.rpm", counted file by file
RECURSIVE CountSrpms(_)
CountSrpms(files) ==
    IF files = {} THEN 0
    ELSE LET f == CHOOSE x \in files : TRUE
             isSrpm == /\ Len(f) >= Len(DotSrcRpm)
                       /\ SubSeq(f, Len(f) - Len(DotSrcRpm) + 1, Len(f)) = DotSrcRpm
         IN (IF isSrpm THEN 1 ELSE 0) + CountSrpms(files \ {f})

\* C16: after the builder has run, if the distgit checkout holds zero or
\* more than one file ending in .src.rpm the component fails fatally and
\* nothing is linked into staging; a package is placed in staging only when
\* exactly one such file exists, and it is that file.
C16_ArtifactCardinality ==
    fpc = "ret" =>
        LET n == CountSrpms(fn_args.listing)
        IN /\ n # 1 => fn_result.kind = "fatal" /\ fn_result.staging = fn_args.staging
           /\ fn_result.staging # fn_args.staging => n = 1
           /\ n = 1 =>
                /\ fn_result.kind = "ok"
                /\ \E f \in fn_args.listing :
                      /\ endswith(f, DotSrcRpm)
                      /\ fn_result.staging = fn_args.staging \cup {[name |-> SrpmTarget, from |-> f]}

\* two source packages in the checkout, an earlier package in staging
C16_Witness ==
    /\ fpc = "ret"
    /\ CountSrpms(fn_args.listing) = 2
    /\ fn_args.staging # {}
    /\ fn_result.kind = "fatal"
    /\ fn_result.staging = fn_args.staging

-----------------------------------------------------------------------------
(* The temporary directories of GitMirror._list_submodules and of          *)
(* TaskResolve._ensure_srpm: mkdtemp, the body under `try`, and `finally`. *)
(* fpc is the line the call is at; an exception or fatal() inside `try`    *)
(* goes to `finally` and leaves the call from there.                       *)

MaxTmp == 3     \* names tempfile.mkdtemp can give out

TmpNames == 1..MaxTmp

NoTmp == 0

ScratchOps == {"_list_submodules", "_ensure_srpm"}

Min_free == CHOOSE d \in TmpNames \ tmpdirs : \A e \in TmpNames \ tmpdirs : d <= e

\* a step of the call that may raise, or end in fatal() where `fatals` says
\* so: it goes on to `next`, or notes what is pending and goes to `handler`
Fallible(at, next, handler, fatals) ==
    /\ fpc = at
    /\ \/ /\ fpc' = next
          /\ UNCHANGED fn_result
       \/ /\ \E how \in {"exception"} \cup (IF fatals THEN {fatal.kind} ELSE {}) :
                fn_result' = [fn_result EXCEPT !.pending = how]
          /\ fpc' = handler
    /\ UNCHANGED <<fn_args, tmpdirs, restVars>>

\* tempfile.mkdtemp: a directory of a name not in use
Mkdtemp(at, next) ==
    /\ fpc = at
    /\ tmpdirs # TmpNames
    /\ tmpdirs' = tmpdirs \cup {Min_free}
    /\ fn_result' = [fn_result EXCEPT !.tmpdir = Min_free]
    /\ fpc' = next
    /\ UNCHANGED <<fn_args, restVars>>

ScratchInit ==
    /\ fpc = "call"
    /\ fn_args = [op |-> "none", preserve |-> FALSE]
    /\ fn_result = [tmpdir |-> NoTmp, pending |-> "none"]
    /\ tmpdirs = {}
    /\ ParIdle
    /\ fs = {}
    /\ in_parent = <<>>
    /\ in_relpath = <<>>
    /\ out_url = NotCalled
    /\ in_description = <<>>
    /\ out_describe = None
    /\ MainIdle
    /\ overlay = <<>>
    /\ snapshotdir = Absent

\* one of the two is called, in a process with or without PRESERVE_TEMP in
\* its environment
ScratchCall ==
    /\ fpc = "call"
    /\ \E op \in ScratchOps, preserve \in BOOLEAN :
        /\ fn_args' = [op |-> op, preserve |-> preserve]
        /\ fpc' = IF op = "_list_submodules" THEN "git139" ELSE "tr213"
    /\ fn_result' = [tmpdir |-> NoTmp, pending |-> "none"]
    /\ UNCHANGED <<tmpdirs, restVars>>

\* git.py:139, _git_revparse, before the directory is made
ListRevparse == Fallible("git139", "git140", "ret", FALSE)

\* git.py:140
ListMkdtemp == Mkdtemp("git140", "git143")

\* git.py:143, the scratch clone
ListClone == Fallible("git143", "git144", "git146", FALSE)

\* git.py:144, _list_submodules_in: the checkout may fail, and
\* make_absolute_url may end in fatal()
ListSubmodulesIn == Fallible("git144", "git146", "git146", TRUE)

\* git.py:145-146: finally rmrf(tmpdir)
ListFinally ==
    /\ fpc = "git146"
    /\ tmpdirs' = tmpdirs \ {fn_result.tmpdir}
    /\ fpc' = "ret"
    /\ UNCHANGED <<fn_args, fn_result, restVars>>

\* task_resolve.py:213-236, describe and the assert, before the directory is
\* made
SrpmDescribe == Fallible("tr213", "tr240", "ret", FALSE)

\* task_resolve.py:240
SrpmMkdtemp == Mkdtemp("tr240", "tr242")

\* task_resolve.py:242-257: the checkouts, or the copy of the spec file
SrpmCheckout == Fallible("tr242", "tr263", "tr268", FALSE)

\* task_resolve.py:263, _generate_srpm: rpmbuild may fail, and the patches
\* action or the number of source packages may end in fatal()
SrpmGenerate == Fallible("tr263", "tr268", "tr268", TRUE)

\* SrpmFinally gone wrong: the directory is removed after the body, not in a
\* `finally`
SrpmFinally_OnReturnOnly ==
    /\ fpc = "tr268"
    /\ tmpdirs' = IF fn_args.preserve \/ fn_result.pending # "none" THEN tmpdirs
                  ELSE tmpdirs \ {fn_result.tmpdir}
    /\ fpc' = "ret"
    /\ UNCHANGED <<fn_args, fn_result, restVars>>

\* task_resolve.py:267-269: finally, unless PRESERVE_TEMP is set, rmrf(tmpdir)
SrpmFinally ==
    /\ fpc = "tr268"
    /\ tmpdirs' = IF fn_args.preserve THEN tmpdirs ELSE tmpdirs \ {fn_result.tmpdir}
    /\ fpc' = "ret"
    /\ UNCHANGED <<fn_args, fn_result, restVars>>

\* the call is left, by return or with what is pending; another call follows
ScratchExit ==
    /\ fpc = "ret"
    /\ fpc' = "call"
    /\ UNCHANGED <<fn_args, fn_result, tmpdirs, restVars>>

ScratchNext ==
    \/ ScratchCall
    \/ ListRevparse
    \/ ListMkdtemp
    \/ ListClone
    \/ ListSubmodulesIn
    \/ ListFinally
    \/ SrpmDescribe
    \/ SrpmMkdtemp
    \/ SrpmCheckout
    \/ SrpmGenerate
    \/ SrpmFinally
    \/ ScratchExit

SpecScratch == ScratchInit /\ [][ScratchNext]_vars

\* the lines that work in the temporary directory
UsesTmpdir == {"git143", "git144", "tr242", "tr263"}

\* C14: the scratch directory of _list_submodules and the temporary
\* directory of _ensure_srpm exist while they are used, and no longer exist
\* when the call that made them is left, by return, by an exception or by
\* fatal(), unless PRESERVE_TEMP is set.
C14_ScratchCleanup ==
    /\ fpc \in UsesTmpdir => fn_result.tmpdir \in tmpdirs
    /\ (fpc = "ret" /\ ~fn_args.preserve) => fn_result.tmpdir \notin tmpdirs

\* _ensure_srpm left by fatal(), its directory made and gone again
C14_Witness ==
    /\ fpc = "ret"
    /\ fn_args = [op |-> "_ensure_srpm", preserve |-> FALSE]
    /\ fn_result.pending = "fatal"
    /\ fn_result.tmpdir # NoTmp
    /\ fn_result.tmpdir \notin tmpdirs

-----------------------------------------------------------------------------
(* The cache stamp and the mirrors of the submodules *)

\* every submodule declared at commit r of u, and every one those declare,
\* has a mirror that holds the commit named
RECURSIVE SubmodulesMirrored(_, _)
SubmodulesMirrored(u, r) ==
    \A i \in 1..Len(Submodules(u, r)) :
        LET module == Submodules(u, r)[i]
        IN /\ mirrorDir[module.url]
           /\ HasCommit(module.url, module.checksum)
           /\ SubmodulesMirrored(module.url, module.checksum)

\* C19: in every state, after calls that succeeded and calls that failed, a
\* cache stamp of u that holds r means every submodule declared at u@r,
\* transitively, has a local mirror that holds its commit; so when mirror()
\* has returned r for a component, checkout finds the commit and every
\* submodule in the mirrors its URLs are rewritten to.
C19_StampSound ==
    /\ \A u \in Urls : stamp[u] # 0 => SubmodulesMirrored(u, stamp[u])
    /\ (rpc = "srpm" /\ cur.src # NoUrl) =>
            /\ HasCommit(cur.src, cur.revision)
            /\ SubmodulesMirrored(cur.src, cur.revision)
    /\ (rpc = "srpm" /\ cur.distgit # NoUrl) =>
            /\ HasCommit(cur.distgit, cur.distgit_revision)
            /\ SubmodulesMirrored(cur.distgit, cur.distgit_revision)

\* A is stamped at its second commit, whose submodules are B@2 and C@1, and
\* B@2 refers back to A@1
C19_Witness ==
    /\ rpc = "srpm"
    /\ cur.src = "A"
    /\ cur.revision = 2
    /\ stamp["A"] = 2
    /\ HasCommit("B", 2)
    /\ HasCommit("C", 1)

-----------------------------------------------------------------------------
(* GitMirror.mirror called on its own, on an acyclic and on a cyclic graph *)

\* the remotes: every master at its first commit, or every master at its last
RecursionInit ==
    /\ graph \in {"dag", "cycle"}
    /\ remoteHead \in {[u \in Urls |-> 1], [u \in Urls |-> MaxRev]}
    /\ LocalIdle
    /\ overlay = <<>>
    /\ snapshotdir = Absent
    /\ PureIdle

\* mirror(url, ref, fetch) is called by a caller that waits for what it
\* returns
MirrorCall ==
    /\ stack = <<>>
    /\ rpc \in {"idle", "distgit", "failed"}
    /\ runs < MaxRuns
    /\ runs' = runs + 1
    /\ \E u \in {"A", "B"}, ref \in {Branch, Commit(1)}, fetch \in BOOLEAN :
            CallMirror(u, ref, fetch)
    /\ rpc' = "src_wait"
    /\ failure' = NoFailure
    /\ UNCHANGED <<overlay, opts, comp, cur, expanded, changed>>
    /\ UNCHANGED <<atStart, retStat>>
    /\ UNCHANGED <<remoteHead, storeVars, snapVars>>

\* the steps of the running mirror() calls
MirrorSteps ==
    \/ MirrorEnsure
    \/ MirrorResolve
    \/ MirrorList
    \/ MirrorRecurse
    \/ MirrorStamp

RecursionNext ==
    \/ (MirrorCall /\ UNCHANGED fixedVars)
    \/ (MirrorEnsure /\ UNCHANGED fixedVars)
    \/ (MirrorResolve /\ UNCHANGED fixedVars)
    \/ (MirrorList /\ UNCHANGED fixedVars)
    \/ (MirrorRecurse /\ UNCHANGED fixedVars)
    \/ (MirrorStamp /\ UNCHANGED fixedVars)

\* mirror() runs in one thread, which takes its next step whenever there is
\* one
SpecRecursion ==
    RecursionInit /\ [][RecursionNext]_vars /\ WF_vars(MirrorSteps /\ UNCHANGED fixedVars)

\* an active call has resolved its ref
Resolved(f) == f.pc \in {"list", "loop"}

-----------------------------------------------------------------------------
(* Two mirror() calls for sibling submodules side by side (git.py:148-181): *)
(* every filesystem step is a step of its own, and the steps of the two     *)
(* processes interleave. The remotes are reachable and the commits asked    *)
(* for exist, so a step fails only for what the other process did.          *)

Procs == {1, 2}

Other(p) == 3 - p

\* the siblings: process 1 mirrors A@1, process 2 mirrors B@1
SiblingUrl(p) == IF p = 1 THEN "A" ELSE "B"

\* one active call mirror(u, <commit r>, fetch=False) of a process
PFrame(u, r) == [url |-> u, rev |-> r, pc |-> "rmrf", todo |-> <<>>]

PTop(p) == procs[p].stack[Len(procs[p].stack)]

At(p, pc) ==
    /\ procs[p].status = "run"
    /\ procs[p].stack # <<>>
    /\ PTop(p).pc = pc

\* the call on top of p's stack goes on at `pc`
Goto(p, pc) ==
    LET st == procs[p].stack
    IN procs' = [procs EXCEPT ![p].stack = [st EXCEPT ![Len(st)].pc = pc]]

\* an exception leaves every active call of p
ParRaise(p) == procs' = [procs EXCEPT ![p] = [stack |-> <<>>, status |-> "failed"]]

\* `return rev` of the call on top of p's stack
ParReturn(p) ==
    LET st == procs[p].stack
    IN procs' = [procs EXCEPT ![p] =
                    [stack |-> SubSeq(st, 1, Len(st) - 1),
                     status |-> IF Len(st) = 1 THEN "done" ELSE "run"]]

\* what no step of the two processes changes
parRest ==
    <<fpc, in_parent, in_relpath, out_url, in_description, out_describe, fn_args, fn_result,
      tmpdirs, fs, graph, remoteHead, stack, runVars, snapVars, histVars>>

ParInit ==
    /\ graph \in {"shared", "disjoint"}
    /\ remoteHead = [u \in Urls |-> 1]
    /\ LocalIdle
    /\ overlay = <<>>
    /\ snapshotdir = Absent
    /\ fpc = "idle"
    /\ in_parent = <<>>
    /\ in_relpath = <<>>
    /\ out_url = NotCalled
    /\ in_description = <<>>
    /\ out_describe = None
    /\ fn_args = <<>>
    /\ fn_result = <<>>
    /\ tmpdirs = {}
    /\ stampTmp = [u \in Urls |-> 0]
    /\ fs = {}
    /\ sched \in [mode : {"parallel", "sequential"}, overlap : {FALSE}]
    /\ procs = [p \in Procs |-> [stack |-> <<PFrame(SiblingUrl(p), 1)>>, status |-> "ready"]]

\* the scheduler starts a call: at any time when the two run in parallel,
\* while the other is not running when they run one after the other
ParStart(p) ==
    /\ procs[p].status = "ready"
    /\ sched.mode = "sequential" => procs[Other(p)].status # "run"
    /\ procs' = [procs EXCEPT ![p].status = "run"]
    /\ sched' = [sched EXCEPT !.overlap = @ \/ procs[Other(p)].status = "run"]
    /\ UNCHANGED <<storeVars, stampTmp>>

\* ParRmrf gone wrong: one temporary path for every URL
ParRmrf_OneTmpPath(p) ==
    /\ At(p, "rmrf")
    /\ tmpMirror' = [u \in Urls |-> FALSE]
    /\ Goto(p, "isdir")
    /\ UNCHANGED <<mirrorDir, localHead, stamp, stampTmp, sched>>

\* line 155: rmrf(tmp_mirror)
ParRmrf(p) ==
    /\ At(p, "rmrf")
    /\ tmpMirror' = [tmpMirror EXCEPT ![PTop(p).url] = FALSE]
    /\ Goto(p, "isdir")
    /\ UNCHANGED <<mirrorDir, localHead, stamp, stampTmp, sched>>

\* line 156: os.path.isdir(mirrordir); fetch is False, so line 160 does nothing
ParIsdir(p) ==
    /\ At(p, "isdir")
    /\ Goto(p, IF mirrorDir[PTop(p).url] THEN "stamp" ELSE "clone")
    /\ UNCHANGED <<storeVars, stampTmp, sched>>

\* line 157: git clone --mirror into tmp_mirror; git refuses a destination
\* that exists and is not empty
ParClone(p) ==
    /\ At(p, "clone")
    /\ IF tmpMirror[PTop(p).url]
       THEN ParRaise(p) /\ UNCHANGED tmpMirror
       ELSE /\ tmpMirror' = [tmpMirror EXCEPT ![PTop(p).url] = TRUE]
            /\ Goto(p, "config")
    /\ UNCHANGED <<mirrorDir, localHead, stamp, stampTmp, sched>>

\* line 158: git config with cwd=tmp_mirror, which has to exist
ParConfig(p) ==
    /\ At(p, "config")
    /\ IF tmpMirror[PTop(p).url] THEN Goto(p, "rename") ELSE ParRaise(p)
    /\ UNCHANGED <<storeVars, stampTmp, sched>>

\* line 159: os.rename(tmp_mirror, mirrordir): ENOENT without the source,
\* ENOTEMPTY onto a mirror that is there already
ParRename(p) ==
    /\ At(p, "rename")
    /\ LET u == PTop(p).url IN
        IF tmpMirror[u] /\ ~mirrorDir[u]
        THEN /\ mirrorDir' = [mirrorDir EXCEPT ![u] = TRUE]
             /\ localHead' = [localHead EXCEPT ![u] = remoteHead[u]]
             /\ tmpMirror' = [tmpMirror EXCEPT ![u] = FALSE]
             /\ Goto(p, "stamp")
        ELSE ParRaise(p) /\ UNCHANGED <<mirrorDir, localHead, tmpMirror>>
    /\ UNCHANGED <<stamp, stampTmp, sched>>

\* lines 164-172: the commit asked for is there; return when the cache stamp
\* holds it
ParReadStamp(p) ==
    /\ At(p, "stamp")
    /\ IF stamp[PTop(p).url] = PTop(p).rev THEN ParReturn(p) ELSE Goto(p, "list")
    /\ UNCHANGED <<storeVars, stampTmp, sched>>

\* line 174: _list_submodules, in a scratch directory of its own
ParList(p) ==
    /\ At(p, "list")
    /\ LET st == procs[p].stack IN
        procs' = [procs EXCEPT ![p].stack =
                    [st EXCEPT ![Len(st)].todo = Submodules(PTop(p).url, PTop(p).rev),
                               ![Len(st)].pc = "loop"]]
    /\ UNCHANGED <<storeVars, stampTmp, sched>>

\* lines 174-177: the call for the next submodule
ParRecurse(p) ==
    /\ At(p, "loop")
    /\ PTop(p).todo # <<>>
    /\ LET st == procs[p].stack
           m == Head(PTop(p).todo)
       IN procs' = [procs EXCEPT ![p].stack =
                      Append([st EXCEPT ![Len(st)].todo = Tail(PTop(p).todo)],
                             PFrame(m.url, m.checksum))]
    /\ UNCHANGED <<storeVars, stampTmp, sched>>

\* lines 178-179: open(cachepath + '.tmp', 'w') and write the commit
ParWriteStamp(p) ==
    /\ At(p, "loop")
    /\ PTop(p).todo = <<>>
    /\ stampTmp' = [stampTmp EXCEPT ![PTop(p).url] = PTop(p).rev]
    /\ Goto(p, "stamp_rename")
    /\ UNCHANGED <<storeVars, sched>>

\* lines 180-181: os.rename(cachepath + '.tmp', cachepath), ENOENT without
\* the source; then return
ParRenameStamp(p) ==
    /\ At(p, "stamp_rename")
    /\ LET u == PTop(p).url IN
        IF stampTmp[u] # 0
        THEN /\ stamp' = [stamp EXCEPT ![u] = stampTmp[u]]
             /\ stampTmp' = [stampTmp EXCEPT ![u] = 0]
             /\ ParReturn(p)
        ELSE ParRaise(p) /\ UNCHANGED <<stamp, stampTmp>>
    /\ UNCHANGED <<mirrorDir, tmpMirror, localHead, sched>>

ParNext ==
    \/ \E p \in Procs : ParStart(p) /\ UNCHANGED parRest
    \/ \E p \in Procs : ParRmrf(p) /\ UNCHANGED parRest
    \/ \E p \in Procs : ParIsdir(p) /\ UNCHANGED parRest
    \/ \E p \in Procs : ParClone(p) /\ UNCHANGED parRest
    \/ \E p \in Procs : ParConfig(p) /\ UNCHANGED parRest
    \/ \E p \in Procs : ParRename(p) /\ UNCHANGED parRest
    \/ \E p \in Procs : ParReadStamp(p) /\ UNCHANGED parRest
    \/ \E p \in Procs : ParList(p) /\ UNCHANGED parRest
    \/ \E p \in Procs : ParRecurse(p) /\ UNCHANGED parRest
    \/ \E p \in Procs : ParWriteStamp(p) /\ UNCHANGED parRest
    \/ \E p \in Procs : ParRenameStamp(p) /\ UNCHANGED parRest

SpecParallel == ParInit /\ [][ParNext]_vars

\* mirror(u, <commit r>) run alone, from start to end, on the store st
RECURSIVE SeqMirror(_, _, _)
RECURSIVE SeqMirrorAll(_, _)
SeqMirror(st, u, r) ==
    LET st1 == IF st.mirrorDir[u] THEN st
               ELSE [st EXCEPT !.mirrorDir[u] = TRUE, !.localHead[u] = remoteHead[u]]
    IN IF st1.stamp[u] = r THEN st1
       ELSE [SeqMirrorAll(st1, Submodules(u, r)) EXCEPT !.stamp[u] = r]

SeqMirrorAll(st, mods) ==
    IF mods = <<>> THEN st
    ELSE SeqMirrorAll(SeqMirror(st, Head(mods).url, Head(mods).checksum), Tail(mods))

EmptyStore ==
    [mirrorDir |-> [u \in Urls |-> FALSE], localHead |-> [u \in Urls |-> 0],
     stamp |-> [u \in Urls |-> 0]]

\* the store after the two sibling calls, one after the other
OneAfterTheOther == SeqMirror(SeqMirror(EmptyStore, SiblingUrl(1), 1), SiblingUrl(2), 1)

Store == [mirrorDir |-> mirrorDir, localHead |-> localHead, stamp |-> stamp]

NoneFailed == \A p \in Procs : procs[p].status # "failed"

BothDone == \A p \in Procs : procs[p].status = "done"

\* no failure, and at the end the store of the sequential run with no
\* temporary clone or stamp left
AsOneAfterTheOther ==
    /\ NoneFailed
    /\ BothDone =>
        /\ Store = OneAfterTheOther
        /\ tmpMirror = [u \in Urls |-> FALSE]
        /\ stampTmp = [u \in Urls |-> 0]

\* C18 as stated: for every submodule graph, also one in which both subtrees
\* refer to a common third repository, the two sibling mirror operations run in
\* parallel never fail and end in the store and stamps of the sequential run.
C18_Claim == procs # <<>> => AsOneAfterTheOther

\* C18, amended: the same holds when the two subtrees have no repository URL
\* in common (and always when the two run one after the other).
C18_DisjointSubtreesIndependent ==
    (procs # <<>> /\ (graph = "disjoint" \/ sched.mode = "sequential")) => AsOneAfterTheOther

\* both calls done after running side by side on disjoint subtrees, A's
\* submodule C mirrored and stamped
C18_Witness ==
    /\ procs # <<>>
    /\ graph = "disjoint"
    /\ sched.mode = "parallel"
    /\ sched.overlap
    /\ BothDone
    /\ Store = OneAfterTheOther
    /\ stamp["C"] = 1

-----------------------------------------------------------------------------
(* git.py:150-164 on a store whose paths are derived from the URLs: the     *)
(* final mirror path by _get_mirrordir, the temporary clone's path by line  *)
(* 151. A call can fail, and the process can be killed while it clones or   *)
(* before it renames.                                                       *)

RECURSIVE rstrip_slash(_)
\* s.rstrip('/')
rstrip_slash(s) ==
    IF s # <<>> /\ s[Len(s)] = "/" THEN rstrip_slash(SubSeq(s, 1, Len(s) - 1)) ELSE s

\* posixpath.dirname
dirname(p) ==
    LET head == Slice(p, 0, rfind(p, <<"/">>) + 1)
    IN IF head # <<>> /\ rstrip_slash(head) # <<>> THEN rstrip_slash(head) ELSE head

\* posixpath.basename
basename(p) == SliceFrom(p, rfind(p, <<"/">>) + 1)

\* line 150
MirrordirOf(url) == _get_mirrordir(url, <<>>).path

\* line 151
TmpMirrorOf(url) ==
    dirname(MirrordirOf(url)) \o <<"/">> \o basename(MirrordirOf(url)) \o <<".", "t", "m", "p">>

\* g://x, g://x/, g://x.tmp, g://x/y and g://z
U_x == <<"g", ":", "/", "/", "x">>

U_x_slash == U_x \o <<"/">>

U_x_tmp == U_x \o <<".", "t", "m", "p">>

U_x_y == U_x \o <<"/", "y">>

U_z == <<"g", ":", "/", "/", "z">>

PathUris == {U_x, U_x_slash, U_x_tmp, U_x_y, U_z}

\* the repository a URL names: a trailing slash names no other one
Repo(url) == rstrip_slash(url)

\* the directory a path names to the kernel: trailing slashes do not count
Norm(p) == rstrip_slash(p)

Entry(p, kind, repo) == [path |-> Norm(p), kind |-> kind, of |-> repo]

\* os.path.isdir
Exists(p) == \E e \in fs : e.path = Norm(p)

EntryAt(p) == CHOOSE e \in fs : e.path = Norm(p)

\* p and all that is inside it
Under(p) == {e \in fs : e.path = Norm(p) \/ startswith(e.path, Norm(p) \o <<"/">>)}

\* a directory with something in it: a clone, or the parent of another
NonEmpty(p) ==
    /\ Exists(p)
    /\ \/ EntryAt(p).kind # "dir"
       \/ \E e \in fs : startswith(e.path, Norm(p) \o <<"/">>)

\* the leading directories of p, which git clone creates where they are missing
Leading(p) ==
    {Slice(Norm(p), 0, i) : i \in {j \in 1..(Len(Norm(p)) - 1) : Norm(p)[j + 1] = "/"}}

WithLeading(p) == fs \cup {Entry(q, "dir", <<>>) : q \in {l \in Leading(p) : ~Exists(l)}}

\* GitMirror.__init__: the mirror root is there
MirrorRoot == {Entry(mirrordir, "dir", <<>>)}

pathRest ==
    <<in_parent, in_relpath, out_url, in_description, out_describe, tmpdirs, procs, sched,
      stampTmp, graph, mainVars>>

PathInit ==
    /\ fpc = "idle"
    /\ fn_args = [url |-> <<>>]
    /\ fn_result = [status |-> "none", first |-> FALSE]
    /\ fs = MirrorRoot
    /\ in_parent = <<>>
    /\ in_relpath = <<>>
    /\ out_url = NotCalled
    /\ in_description = <<>>
    /\ out_describe = None
    /\ tmpdirs = {}
    /\ ParIdle
    /\ MainIdle
    /\ overlay = <<>>
    /\ snapshotdir = Absent

\* the call ends: it returned ("ok"), raised ("failed"), or its process was
\* killed
PathDone(status) ==
    /\ fpc' = "idle"
    /\ fn_result' = [fn_result EXCEPT !.status = status]

\* mirror(url, ...) is called
PathCall ==
    /\ fpc = "idle"
    /\ \E url \in PathUris : fn_args' = [url |-> url]
    /\ fn_result' = [status |-> "running", first |-> FALSE]
    /\ fpc' = "git155"
    /\ UNCHANGED fs

\* line 155: rmrf(tmp_mirror)
PathRmrf ==
    /\ fpc = "git155"
    /\ fs' = fs \ Under(TmpMirrorOf(fn_args.url))
    /\ fpc' = "git156"
    /\ UNCHANGED <<fn_args, fn_result>>

\* line 156: os.path.isdir(mirrordir)
PathIsdir ==
    /\ fpc = "git156"
    /\ fn_result' = [fn_result EXCEPT !.first = ~Exists(MirrordirOf(fn_args.url))]
    /\ fpc' = IF Exists(MirrordirOf(fn_args.url)) THEN "git164" ELSE "git157"
    /\ UNCHANGED <<fn_args, fs>>

\* line 157: git clone --mirror into tmp_mirror, which line 155 removed. It
\* succeeds; or fails, removing what it cloned, with or without the leading
\* directories made already; or the process is killed while it clones
PathClone ==
    /\ fpc = "git157"
    /\ LET tmp == TmpMirrorOf(fn_args.url) IN
        \/ /\ fs' = WithLeading(tmp) \cup {Entry(tmp, "mirror", Repo(fn_args.url))}
           /\ fpc' = "git158"
           /\ UNCHANGED fn_result
        \/ /\ \E made \in BOOLEAN : fs' = IF made THEN WithLeading(tmp) ELSE fs
           /\ PathDone("failed")
        \/ /\ fs' = WithLeading(tmp) \cup {Entry(tmp, "partial", Repo(fn_args.url))}
           /\ PathDone("killed")
    /\ UNCHANGED fn_args

\* line 158: git config gc.auto 0 in tmp_mirror
PathConfig ==
    /\ fpc = "git158"
    /\ fpc' = "git159"
    /\ UNCHANGED <<fn_args, fn_result, fs>>

\* line 159: os.rename(tmp_mirror, mirrordir): ENOTEMPTY when mirrordir is
\* a directory that is not empty
PathRename ==
    /\ fpc = "git159"
    /\ LET tmp == TmpMirrorOf(fn_args.url)
           m == MirrordirOf(fn_args.url)
       IN IF NonEmpty(m)
          THEN PathDone("failed") /\ UNCHANGED fs
          ELSE /\ fs' = (fs \ (Under(tmp) \cup Under(m)))
                            \cup {[EntryAt(tmp) EXCEPT !.path = Norm(m)]}
               /\ fpc' = "git164"
               /\ UNCHANGED fn_result
    /\ UNCHANGED fn_args

\* the process is killed after the clone and before the rename
PathKill ==
    /\ fpc \in {"git158", "git159"}
    /\ PathDone("killed")
    /\ UNCHANGED <<fn_args, fs>>

\* lines 160-164: git fetch and git rev-parse run in mirrordir, which is
\* taken for the mirror; they fail in what is no repository, and may fail in
\* a clone that never finished
PathUse ==
    /\ fpc = "git164"
    /\ LET kind == EntryAt(MirrordirOf(fn_args.url)).kind IN
        \/ kind = "mirror" /\ PathDone("ok")
        \/ kind = "partial" /\ \E s \in {"ok", "failed"} : PathDone(s)
        \/ kind = "dir" /\ PathDone("failed")
    /\ UNCHANGED <<fn_args, fs>>

PathNext ==
    \/ PathCall /\ UNCHANGED pathRest
    \/ PathRmrf /\ UNCHANGED pathRest
    \/ PathIsdir /\ UNCHANGED pathRest
    \/ PathClone /\ UNCHANGED pathRest
    \/ PathConfig /\ UNCHANGED pathRest
    \/ PathRename /\ UNCHANGED pathRest
    \/ PathKill /\ UNCHANGED pathRest
    \/ PathUse /\ UNCHANGED pathRest

SpecPaths == PathInit /\ [][PathNext]_vars

\* a finished mirror clone of url's repository is at url's final mirror path
CompleteAt(url) ==
    /\ EntryAt(MirrordirOf(url)).kind = "mirror"
    /\ EntryAt(MirrordirOf(url)).of = Repo(url)

\* what C20 says of one URL
CompleteOrAbsent(url) ==
    /\ Exists(MirrordirOf(url)) => CompleteAt(url)
    /\ (fpc = "idle" /\ fn_args.url = url /\ fn_result.status = "failed" /\ fn_result.first)
            => ~Exists(MirrordirOf(url))
    /\ (fpc = "git164" /\ fn_args.url = url) => CompleteAt(url)

\* C20: in every reachable state, also after a clone that failed or was
\* interrupted, a directory exists at the final mirror path of a URL only if
\* a full mirror clone of that URL completed; a failed first-time clone leaves
\* nothing at the final path; and a call never goes on to use as its mirror
\* anything but a finished clone of its URL.
C20_Claim == (fn_args # <<>> /\ fs # {}) => \A url \in PathUris : CompleteOrAbsent(url)

\* a URL with a trailing slash: the first call's rename has failed and left a
\* directory at the final mirror path
C20_TrailingSlashLeftover ==
    /\ fn_args # <<>> /\ fs # {}
    /\ fpc = "idle"
    /\ fn_args.url = U_x_slash
    /\ fn_result = [status |-> "failed", first |-> TRUE]
    /\ Exists(MirrordirOf(U_x_slash))

\* what holds of a URL whose paths are unrelated to those of the other URLs
C20_UnrelatedPathsComplete == (fn_args # <<>> /\ fs # {}) => CompleteOrAbsent(U_z)

-----------------------------------------------------------------------------
(* The first publication (Spec): run() in a working directory without a     *)
(* snapshot directory                                                       *)

\* every component of the overlay is resolved: mirrored and its source
\* package in staging
AllResolved == Len(expanded) = Len(overlay)

\* the staged manifest and artifacts of this run are the published snapshot
StagingPublished ==
    /\ snapshotdir.exists
    /\ snapshotdir.hasManifest
    /\ snapshotdir.manifest = expanded
    /\ snapshotdir.artifacts = Srpms(expanded)
    /\ snapshotdir.made = runs
    /\ ~tmp_snapshotdir.exists

\* C21: when the snapshot directory does not exist as a run begins and every
\* component resolves, the run ends without error, with its staging manifest
\* and artifacts promoted to the published snapshot location.
C21_Claim ==
    (rpc \in {"done", "failed"} /\ ~atStart.snapshot.exists /\ AllResolved)
        => (rpc = "done" /\ StagingPublished)

\* the first run in a working directory without a snapshot directory has
\* resolved every component and failed in the rename of line 339, its
\* manifest left in staging and nothing published
C21_FirstRunFailsInRename ==
    /\ rpc = "failed"
    /\ runs = 1
    /\ ~atStart.snapshot.exists
    /\ AllResolved
    /\ failure.cause = "rename"
    /\ tmp_snapshotdir.hasManifest
    /\ ~snapshotdir.exists

\* what holds: a run that begins with a snapshot directory, be it an empty
\* one, and ends without error having found a change has published its staging
C21_PublishesOverDirectory ==
    (rpc = "done" /\ atStart.snapshot.exists /\ changed) => StagingPublished

=============================================================================
